---------------------------- MODULE Spec2Model ----------------------------
(***************************************************************************)
(* State-machine model of the APU of the pico NES emulator                 *)
(* (src/src/apu/mod.rs): the five channels, the frame counter with its     *)
(* delayed reset, the status register, the IRQ line and the shared audio   *)
(* sample queue; and of its cartridge mappers (src/src/mapper): MMC3,      *)
(* MMC1, CNROM, UxROM and NROM.                                            *)
(*                                                                         *)
(* Every struct of the source is a record with the source's field names,   *)
(* every method is an operator from the struct's record to the record      *)
(* after the call, and every public entry point of APU is an action.       *)
(* Option<T> is a sequence: None is << >>, Some(x) is << x >>.             *)
(***************************************************************************)
EXTENDS Integers, Sequences, FiniteSets, TLC

VARIABLES
    square1,              \* APU.square1 : SquareChannel
    square2,              \* APU.square2 : SquareChannel
    triangle,             \* APU.triangle : TriangleChannel
    noise,                \* APU.noise : NoiseChannel
    dmc,                  \* APU.dmc : DmcChannel
    frame_counter,        \* APU.frame_counter : FrameCounter
    frame_irq,            \* APU.frame_irq
    sample_timer,         \* APU.sample_timer, in units of 1/sample_rate CPU cycles
    sample_rate,          \* the sample_rate given to APU::new (fixes cycles_per_sample)
    frame_buffer_limit,   \* APU.frame_buffer_limit
    audio_buffer,         \* the VecDeque behind APU.audio_buffer
    cpu_cycle,            \* APU.cpu_cycle
    pending_frame_reset,  \* APU.pending_frame_reset : Option<FrameCounterReset>
    last,                 \* what the last call did: its name, arguments, result and the
                          \* frame clocks it issued (observation only, never read by the APU)
    hist,                 \* history of the run (observation only)
    mutex,                \* holder of the Mutex around audio_buffer
    emu_pc,               \* position of the emulator thread inside queue_sample
    host_pc,              \* position of the host audio thread
    mapper,               \* the cartridge mapper behind the bus (Box<dyn Mapper>), if any
    cpu,                  \* the CPU (registers, memory, position inside run), if any
    pulse                 \* a PulseChannel of apu/pulse.rs, if one was constructed

vars == << square1, square2, triangle, noise, dmc, frame_counter, frame_irq,
           sample_timer, sample_rate, frame_buffer_limit, audio_buffer, cpu_cycle,
           pending_frame_reset, last, hist, mutex, emu_pc, host_pc, mapper, cpu,
           pulse >>

---------------------------------------------------------------------------
(* Bounds of the model.                                                    *)

\* SpecFrame: clocks per run, $4017 writes per run, last cycle a write may happen on
MaxFrameCycles == 29840
MaxFrameWrites == 1
LastFrameWriteCycle == 2
\* SpecReset: clocks per run, $4017 writes per run, first cycle a write may happen on
MaxResetCycles == 7470
MaxResetWrites == 2
ResetWriteFrom == 7455
\* SpecStatus: clocks per run, first cycle the CPU touches the registers on,
\* register writes per run
MaxStatusCycles == 14918
StatusFrom == 14916
MaxStatusWrites == 3
\* SpecDmc: clocks per run
MaxDmcCycles == 29200
\* SpecLevel: clocks per run, and the cycle of the $4011 write during playback
MaxLevelCycles == 2000
LevelWriteAt == 1000
\* SpecStarve: clocks per run
MaxStarveCycles == 2000
\* SpecQueue: samples produced per run, largest sample rate
MaxProduced == 6
MaxQueueRate == 2
\* sample rate handed to APU::new in the DMC specifications
DmcSampleRate == 1
\* sample rate handed to APU::new in the clocked specifications
ClockSampleRate == 1000
\* writes to an NROM cartridge that are counted
MaxNromWrites == 2
\* SpecLength: clocks per run, the cycle of the set-up writes, their number, and
\* the number of $4017 writes
MaxLengthCycles == 7476
LengthFrom == 7450
MaxSetupWrites == 2
MaxLengthResets == 2

---------------------------------------------------------------------------
(* Bit helpers: u8/u16 arithmetic of the source on naturals.               *)

Pow2(n) == 2 ^ n
Bit(v, n) == (v \div Pow2(n)) % 2
Shr(v, n) == v \div Pow2(n)
Xor1(x, y) == (x + y) % 2
None == << >>
Some(x) == << x >>
IsSome(o) == Len(o) = 1
Unwrap(o) == o[1]

---------------------------------------------------------------------------
(* Constant tables.                                                        *)

CPU_FREQUENCY == 1789773

LENGTH_TABLE ==
    << 10, 254, 20, 2, 40, 4, 80, 6, 160, 8, 60, 10, 14, 12, 26, 14,
       12, 16, 24, 18, 48, 20, 96, 22, 192, 24, 72, 26, 16, 28, 32, 30 >>

DUTY_TABLE ==
    << << 0, 1, 0, 0, 0, 0, 0, 0 >>,
       << 0, 1, 1, 0, 0, 0, 0, 0 >>,
       << 0, 1, 1, 1, 1, 0, 0, 0 >>,
       << 1, 0, 0, 1, 1, 1, 1, 1 >> >>

TRIANGLE_TABLE ==
    << 15, 14, 13, 12, 11, 10, 9, 8, 7, 6, 5, 4, 3, 2, 1, 0,
       0, 1, 2, 3, 4, 5, 6, 7, 8, 9, 10, 11, 12, 13, 14, 15 >>

NOISE_PERIOD_TABLE ==
    << 4, 8, 16, 32, 64, 96, 128, 160, 202, 254, 380, 508, 762, 1016, 2034, 4068 >>

DMC_RATE_TABLE ==
    << 428, 380, 340, 320, 286, 254, 226, 214, 190, 160, 142, 128, 106, 85, 72, 54 >>

\* mutant: the table is indexed by the low 5 bits of the byte
LengthLoad_low_bits(data) == LENGTH_TABLE[(data % 32) + 1]

\* LENGTH_TABLE[((data >> 3) & 0x1F) as usize]   (the tables above are 1-based)
LengthLoad(data) == LENGTH_TABLE[(Shr(data, 3) % 32) + 1]

---------------------------------------------------------------------------
(* Envelope                                                                *)

Envelope_new ==
    [ constant_volume |-> FALSE, loop_flag |-> FALSE, volume |-> 0,
      start_flag |-> FALSE, divider |-> 0, decay_level |-> 0 ]

Envelope_set_control(e, data) ==
    [ e EXCEPT !.constant_volume = (Bit(data, 4) = 1),
               !.loop_flag = (Bit(data, 5) = 1),
               !.volume = data % 16 ]

Envelope_restart(e) == [ e EXCEPT !.start_flag = TRUE ]

\* (self.volume & 0x0F).saturating_add(1)
Envelope_divider_period(e) == (e.volume % 16) + 1

\* mutant: the decay level does not start again from 15 when the loop flag is set
Envelope_clock_without_loop(e) ==
    IF e.start_flag
    THEN [ e EXCEPT !.start_flag = FALSE, !.decay_level = 15,
                    !.divider = Envelope_divider_period(e) ]
    ELSE IF e.divider = 0
    THEN [ e EXCEPT !.divider = Envelope_divider_period(e),
                    !.decay_level = IF e.decay_level = 0 THEN 0
                                    ELSE e.decay_level - 1 ]
    ELSE [ e EXCEPT !.divider = e.divider - 1 ]

Envelope_clock(e) ==
    IF e.start_flag
    THEN [ e EXCEPT !.start_flag = FALSE, !.decay_level = 15,
                    !.divider = Envelope_divider_period(e) ]
    ELSE IF e.divider = 0
    THEN [ e EXCEPT !.divider = Envelope_divider_period(e),
                    !.decay_level = IF e.decay_level = 0
                                    THEN (IF e.loop_flag THEN 15 ELSE 0)
                                    ELSE e.decay_level - 1 ]
    ELSE [ e EXCEPT !.divider = e.divider - 1 ]

Envelope_output(e) == IF e.constant_volume THEN e.volume ELSE e.decay_level

Envelope_halt(e) == e.loop_flag

---------------------------------------------------------------------------
(* SweepUnit                                                               *)

SweepUnit_new(ones_complement) ==
    [ enabled |-> FALSE, negate |-> FALSE, shift |-> 0, period |-> 0,
      divider |-> 0, reload |-> FALSE, ones_complement |-> ones_complement,
      muted |-> FALSE ]

SweepUnit_write(s, data) ==
    [ s EXCEPT !.enabled = (Bit(data, 7) = 1),
               !.period = (Shr(data, 4) % 8) + 1,
               !.negate = (Bit(data, 3) = 1),
               !.shift = data % 8,
               !.reload = TRUE,
               !.divider = (Shr(data, 4) % 8) + 1,
               !.muted = FALSE ]

SweepUnit_is_muted(s, timer_period) == s.muted \/ timer_period < 8

\* mutant: no extra 1 is subtracted for pulse 1
SweepUnit_target_twos_complement(s, timer_period) ==
    LET change == Shr(timer_period, s.shift)
    IN  IF s.negate
        THEN (timer_period - change) % 65536
        ELSE (timer_period + change) % 65536

\* the u16 target of calculate_target (wrapping_sub / wrapping_add)
SweepUnit_target(s, timer_period) ==
    LET change == Shr(timer_period, s.shift)
        adjustment == IF s.negate /\ s.ones_complement THEN 1 ELSE 0
    IN  IF s.negate
        THEN (timer_period - (change + adjustment)) % 65536
        ELSE (timer_period + change) % 65536

\* step: the pair (sweep unit, timer period) after a half-frame clock
SweepUnit_step(s, timer_period) ==
    LET apply_change == s.divider = 0 /\ s.enabled /\ s.shift > 0
                        /\ ~SweepUnit_is_muted(s, timer_period)
        s1 == IF s.divider = 0
              THEN [ s EXCEPT !.divider = s.period ]
              ELSE [ s EXCEPT !.divider = s.divider - 1 ]
        target == SweepUnit_target(s1, timer_period)
        s2 == IF apply_change
              THEN [ s1 EXCEPT !.muted = ~(target <= 2047) ]
              ELSE s1
        p2 == IF apply_change /\ target <= 2047 THEN target ELSE timer_period
        s3 == IF s2.reload
              THEN [ s2 EXCEPT !.reload = FALSE, !.divider = s2.period ]
              ELSE s2
    IN  [ sweep |-> s3, timer_period |-> p2 ]

SweepUnit_reset_mute(s) == [ s EXCEPT !.muted = FALSE ]

---------------------------------------------------------------------------
(* SquareChannel                                                           *)

SquareChannel_new(ones_complement) ==
    [ envelope |-> Envelope_new, sweep |-> SweepUnit_new(ones_complement),
      timer_period |-> 0, timer_value |-> 0, duty_mode |-> 0,
      duty_position |-> 0, length_counter |-> 0, enabled |-> FALSE ]

Square_write_control(c, data) ==
    [ c EXCEPT !.duty_mode = Shr(data, 6) % 4,
               !.envelope = Envelope_set_control(c.envelope, data) ]

Square_write_sweep(c, data) == [ c EXCEPT !.sweep = SweepUnit_write(c.sweep, data) ]

Square_write_timer_low(c, data) ==
    [ c EXCEPT !.sweep = SweepUnit_reset_mute(c.sweep),
               !.timer_period = (c.timer_period \div 256) * 256 + data ]

Square_write_timer_high(c, data) ==
    LET period == (c.timer_period % 256) + (data % 8) * 256
    IN  [ c EXCEPT !.sweep = SweepUnit_reset_mute(c.sweep),
                   !.timer_period = period,
                   !.length_counter = LengthLoad(data),
                   !.envelope = Envelope_restart(c.envelope),
                   !.duty_position = 0,
                   !.timer_value = period + 1 ]

Square_clock_timer(c) ==
    IF c.timer_value = 0
    THEN [ c EXCEPT !.timer_value = c.timer_period + 1,
                    !.duty_position = (c.duty_position + 1) % 8 ]
    ELSE [ c EXCEPT !.timer_value = c.timer_value - 1 ]

Square_output(c) ==
    IF \/ ~c.enabled
       \/ c.length_counter = 0
       \/ c.timer_period < 8
       \/ DUTY_TABLE[c.duty_mode + 1][c.duty_position + 1] = 0
       \/ SweepUnit_is_muted(c.sweep, c.timer_period)
    THEN 0
    ELSE Envelope_output(c.envelope)

Square_clock_envelope(c) == [ c EXCEPT !.envelope = Envelope_clock(c.envelope) ]

Square_clock_length_counter(c) ==
    IF c.length_counter > 0 /\ ~Envelope_halt(c.envelope)
    THEN [ c EXCEPT !.length_counter = c.length_counter - 1 ]
    ELSE c

Square_clock_sweep(c) ==
    LET r == SweepUnit_step(c.sweep, c.timer_period)
    IN  [ c EXCEPT !.sweep = r.sweep, !.timer_period = r.timer_period ]

Square_set_enabled(c, enabled) == [ c EXCEPT !.enabled = enabled ]

Square_clear_length(c) == [ c EXCEPT !.length_counter = 0 ]

---------------------------------------------------------------------------
(* TriangleChannel                                                         *)

TriangleChannel_new ==
    [ enabled |-> FALSE, length_counter |-> 0, timer_period |-> 0,
      timer_value |-> 0, sequence_idx |-> 0, linear_counter |-> 0,
      linear_reload_value |-> 0, linear_control_flag |-> FALSE,
      linear_reload_flag |-> FALSE ]

Triangle_write_control(c, data) ==
    [ c EXCEPT !.linear_control_flag = (Bit(data, 7) = 1),
               !.linear_reload_value = data % 128 ]

Triangle_write_timer_low(c, data) ==
    [ c EXCEPT !.timer_period = (c.timer_period \div 256) * 256 + data ]

Triangle_write_timer_high(c, data) ==
    LET period == (c.timer_period % 256) + (data % 8) * 256
    IN  [ c EXCEPT !.timer_period = period,
                   !.length_counter = LengthLoad(data),
                   !.linear_reload_flag = TRUE,
                   !.sequence_idx = 0,
                   !.timer_value = period + 1 ]

Triangle_clock_timer(c) ==
    IF c.timer_value = 0
    THEN [ c EXCEPT !.timer_value = c.timer_period + 1,
                    !.sequence_idx =
                        IF c.length_counter > 0 /\ c.linear_counter > 0
                           /\ c.timer_period >= 2
                        THEN (c.sequence_idx + 1) % 32
                        ELSE c.sequence_idx ]
    ELSE [ c EXCEPT !.timer_value = c.timer_value - 1 ]

Triangle_clock_linear_counter(c) ==
    [ c EXCEPT !.linear_counter =
                   IF c.linear_reload_flag THEN c.linear_reload_value
                   ELSE IF c.linear_counter > 0 THEN c.linear_counter - 1
                   ELSE c.linear_counter,
               !.linear_reload_flag =
                   IF ~c.linear_control_flag THEN FALSE ELSE c.linear_reload_flag ]

Triangle_clock_length_counter(c) ==
    IF c.length_counter > 0 /\ ~c.linear_control_flag
    THEN [ c EXCEPT !.length_counter = c.length_counter - 1 ]
    ELSE c

Triangle_output(c) ==
    IF ~c.enabled \/ c.length_counter = 0 \/ c.linear_counter = 0 \/ c.timer_period < 2
    THEN 0
    ELSE TRIANGLE_TABLE[c.sequence_idx + 1]

Triangle_set_enabled(c, enabled) == [ c EXCEPT !.enabled = enabled ]

Triangle_clear_length(c) == [ c EXCEPT !.length_counter = 0 ]

---------------------------------------------------------------------------
(* NoiseChannel                                                            *)

NoiseChannel_new ==
    [ enabled |-> FALSE, envelope |-> Envelope_new, length_counter |-> 0,
      timer_period |-> 0, timer_value |-> 0, mode |-> FALSE, shift_register |-> 1 ]

Noise_write_control(c, data) ==
    [ c EXCEPT !.envelope = Envelope_set_control(c.envelope, data) ]

Noise_write_period(c, data) ==
    [ c EXCEPT !.mode = (Bit(data, 7) = 1),
               !.timer_period = NOISE_PERIOD_TABLE[(data % 16) + 1],
               !.timer_value = NOISE_PERIOD_TABLE[(data % 16) + 1] ]

Noise_write_length(c, data) ==
    [ c EXCEPT !.length_counter = LengthLoad(data),
               !.envelope = Envelope_restart(c.envelope) ]

\* mutant: the register is shifted without the feedback bit
Noise_clock_timer_without_feedback(c) ==
    IF c.timer_value = 0
    THEN [ c EXCEPT !.timer_value = c.timer_period,
                    !.shift_register = Shr(c.shift_register, 1) ]
    ELSE [ c EXCEPT !.timer_value = c.timer_value - 1 ]

Noise_clock_timer(c) ==
    IF c.timer_value = 0
    THEN LET feedback == IF c.mode
                         THEN Xor1(Bit(c.shift_register, 0), Bit(c.shift_register, 6))
                         ELSE Xor1(Bit(c.shift_register, 0), Bit(c.shift_register, 1))
             shifted == Shr(c.shift_register, 1)
         IN  [ c EXCEPT !.timer_value = c.timer_period,
                        \* shift_register |= feedback << 14, on a u16
                        !.shift_register =
                            IF Bit(shifted, 14) = 1 THEN shifted
                            ELSE shifted + feedback * 16384 ]
    ELSE [ c EXCEPT !.timer_value = c.timer_value - 1 ]

Noise_clock_envelope(c) == [ c EXCEPT !.envelope = Envelope_clock(c.envelope) ]

Noise_clock_length_counter(c) ==
    IF c.length_counter > 0 /\ ~Envelope_halt(c.envelope)
    THEN [ c EXCEPT !.length_counter = c.length_counter - 1 ]
    ELSE c

Noise_output(c) ==
    IF ~c.enabled \/ c.length_counter = 0 \/ Bit(c.shift_register, 0) = 1
    THEN 0
    ELSE Envelope_output(c.envelope)

Noise_set_enabled(c, enabled) == [ c EXCEPT !.enabled = enabled ]

Noise_clear_length(c) == [ c EXCEPT !.length_counter = 0 ]

---------------------------------------------------------------------------
(* DmcChannel                                                              *)

DmcChannel_new ==
    [ enabled |-> FALSE, irq_enabled |-> FALSE, irq_pending |-> FALSE,
      loop_flag |-> FALSE, timer_period |-> DMC_RATE_TABLE[1],
      timer_value |-> DMC_RATE_TABLE[1], sample_address |-> 49152,
      sample_length |-> 1, current_address |-> 49152, bytes_remaining |-> 0,
      sample_buffer |-> None, pending_fetch |-> FALSE, shift_register |-> 0,
      bits_remaining |-> 8, silence |-> TRUE, output_level |-> 0 ]

Dmc_write_control(d, data) ==
    [ d EXCEPT !.timer_period = DMC_RATE_TABLE[(data % 16) + 1],
               !.timer_value = DMC_RATE_TABLE[(data % 16) + 1],
               !.loop_flag = (Bit(data, 6) = 1),
               !.irq_enabled = (Bit(data, 7) = 1),
               !.irq_pending = IF Bit(data, 7) = 0 THEN FALSE ELSE d.irq_pending ]

Dmc_write_direct_load(d, data) == [ d EXCEPT !.output_level = data % 128 ]

\* 0xC000 | ((data as u16) << 6)
Dmc_write_sample_address(d, data) == [ d EXCEPT !.sample_address = 49152 + data * 64 ]

Dmc_write_sample_length(d, data) == [ d EXCEPT !.sample_length = data * 16 + 1 ]

\* the output unit's part of clock(): one timer tick
\* mutant: the upper clamp of the output level is off by two
Dmc_next_level_high_clamp(d) ==
    IF d.silence THEN d.output_level
    ELSE IF Bit(d.shift_register, 0) = 1
    THEN (IF d.output_level <= 127 THEN d.output_level + 2 ELSE d.output_level)
    ELSE (IF d.output_level >= 2 THEN d.output_level - 2 ELSE d.output_level)

\* the output level after a timer underflow
Dmc_next_level(d) ==
    IF d.silence THEN d.output_level
    ELSE IF Bit(d.shift_register, 0) = 1
    THEN (IF d.output_level <= 125 THEN d.output_level + 2 ELSE d.output_level)
    ELSE (IF d.output_level >= 2 THEN d.output_level - 2 ELSE d.output_level)

Dmc_clock_output(d) ==
    IF d.timer_value = 0
    THEN LET level == Dmc_next_level(d)
             bits == d.bits_remaining - 1
             d1 == [ d EXCEPT !.timer_value = d.timer_period,
                              !.output_level = level,
                              !.shift_register = Shr(d.shift_register, 1),
                              !.bits_remaining = bits ]
         IN  IF bits = 0
             THEN IF IsSome(d1.sample_buffer)
                  THEN [ d1 EXCEPT !.bits_remaining = 8,
                                   !.shift_register = Unwrap(d1.sample_buffer),
                                   !.sample_buffer = None,
                                   !.silence = FALSE ]
                  ELSE [ d1 EXCEPT !.bits_remaining = 8, !.silence = TRUE ]
             ELSE d1
    ELSE [ d EXCEPT !.timer_value = d.timer_value - 1 ]

\* the condition under which clock() issues a fetch request
\* mutant: a fetch is asked for again while the last one is pending
Dmc_wants_fetch_while_pending(d) ==
    d.sample_buffer = None /\ d.bytes_remaining > 0 /\ d.enabled

Dmc_wants_fetch(d) ==
    ~d.pending_fetch /\ d.sample_buffer = None /\ d.bytes_remaining > 0 /\ d.enabled

\* mutant: the address wraps to 0 and is left there
Dmc_next_address_to_zero(addr) == (addr + 1) % 65536

\* current_address.wrapping_add(1), and 0 replaced by 0x8000
Dmc_next_address(addr) ==
    LET n == (addr + 1) % 65536
    IN  IF n = 0 THEN 32768 ELSE n

\* clock(): the channel after the call and the request it returns
Dmc_clock(d) ==
    LET d1 == Dmc_clock_output(d)
    IN  IF Dmc_wants_fetch(d1)
        THEN [ dmc |-> [ d1 EXCEPT !.pending_fetch = TRUE,
                                   !.current_address = Dmc_next_address(d1.current_address) ],
               request |-> Some(d1.current_address) ]
        ELSE [ dmc |-> d1, request |-> None ]

Dmc_reload_sample(d) ==
    [ d EXCEPT !.current_address = d.sample_address,
               !.bytes_remaining = d.sample_length ]

Dmc_provide_sample(d, value) ==
    IF ~d.pending_fetch THEN d
    ELSE LET remaining == IF d.bytes_remaining > 0 THEN d.bytes_remaining - 1
                          ELSE d.bytes_remaining
             d1 == [ d EXCEPT !.sample_buffer = Some(value),
                              !.pending_fetch = FALSE,
                              !.bytes_remaining = remaining ]
         IN  IF remaining = 0
             THEN IF d1.loop_flag THEN Dmc_reload_sample(d1)
                  ELSE IF d1.irq_enabled THEN [ d1 EXCEPT !.irq_pending = TRUE ]
                  ELSE d1
             ELSE d1

Dmc_set_enabled(d, enabled) == [ d EXCEPT !.enabled = enabled ]

\* mutant: enabling the channel restarts the sample even when one is in progress
Dmc_restart_always(d) == IF d.enabled THEN Dmc_reload_sample(d) ELSE d

Dmc_restart_if_needed(d) ==
    IF d.enabled /\ d.bytes_remaining = 0 THEN Dmc_reload_sample(d) ELSE d

Dmc_clear_bytes(d) ==
    [ d EXCEPT !.bytes_remaining = 0, !.pending_fetch = FALSE, !.sample_buffer = None ]

Dmc_output(d) == d.output_level

Dmc_clear_irq(d) == [ d EXCEPT !.irq_pending = FALSE ]

---------------------------------------------------------------------------
(* FrameCounter                                                            *)

FrameStep(cycle, clock_quarter, clock_half) ==
    [ cycle |-> cycle, clock_quarter |-> clock_quarter, clock_half |-> clock_half ]

FOUR_STEP_SEQ ==
    << FrameStep(3729, TRUE, FALSE), FrameStep(7457, TRUE, TRUE),
       FrameStep(11186, TRUE, FALSE), FrameStep(14916, TRUE, TRUE) >>

\* mutant: the fourth step of the five-step sequence clocks like the four-step one
FIVE_STEP_SEQ_clocked_fourth ==
    << FrameStep(3729, TRUE, FALSE), FrameStep(7457, TRUE, TRUE),
       FrameStep(11186, TRUE, FALSE), FrameStep(14916, TRUE, TRUE),
       FrameStep(18641, TRUE, TRUE) >>

FIVE_STEP_SEQ ==
    << FrameStep(3729, TRUE, FALSE), FrameStep(7457, TRUE, TRUE),
       FrameStep(11186, TRUE, FALSE), FrameStep(14916, FALSE, FALSE),
       FrameStep(18641, TRUE, TRUE) >>

FrameCounter_new ==
    [ mode |-> "FourStep", step_index |-> 0, cycle_counter |-> 0, irq_inhibit |-> FALSE ]

FrameCounter_set_mode(f, mode) == [ f EXCEPT !.mode = mode ]

FrameCounter_set_irq_inhibit(f, irq_inhibit) == [ f EXCEPT !.irq_inhibit = irq_inhibit ]

FrameCounter_reset(f) == [ f EXCEPT !.step_index = 0, !.cycle_counter = 0 ]

FrameEvents_default == [ quarter |-> FALSE, half |-> FALSE, irq |-> FALSE ]

\* mutant: the last step of a sequence does not restart the cycle counter
FrameCounter_tick_no_restart(f) ==
    LET cc == f.cycle_counter + 1
        sequence == IF f.mode = "FourStep" THEN FOUR_STEP_SEQ ELSE FIVE_STEP_SEQ
    IN  IF f.step_index < Len(sequence) /\ cc = sequence[f.step_index + 1].cycle
        THEN LET step == sequence[f.step_index + 1]
                 wraps == f.step_index + 1 = Len(sequence)
             IN  [ fc |-> [ f EXCEPT !.step_index = IF wraps THEN 0 ELSE f.step_index + 1,
                                     !.cycle_counter = cc ],
                   events |-> [ quarter |-> step.clock_quarter,
                                half |-> step.clock_half,
                                irq |-> f.mode = "FourStep" /\ wraps /\ ~f.irq_inhibit ] ]
        ELSE [ fc |-> [ f EXCEPT !.cycle_counter = cc ], events |-> FrameEvents_default ]

\* tick(): the counter after the call and the events it returns
FrameCounter_tick(f) ==
    LET cc == f.cycle_counter + 1
        sequence == IF f.mode = "FourStep" THEN FOUR_STEP_SEQ ELSE FIVE_STEP_SEQ
    IN  IF f.step_index < Len(sequence) /\ cc = sequence[f.step_index + 1].cycle
        THEN LET step == sequence[f.step_index + 1]
                 wraps == f.step_index + 1 = Len(sequence)
             IN  [ fc |-> [ f EXCEPT !.step_index = IF wraps THEN 0 ELSE f.step_index + 1,
                                     !.cycle_counter = IF wraps THEN 0 ELSE cc ],
                   events |-> [ quarter |-> step.clock_quarter,
                                half |-> step.clock_half,
                                irq |-> f.mode = "FourStep" /\ wraps /\ ~f.irq_inhibit ] ]
        ELSE [ fc |-> [ f EXCEPT !.cycle_counter = cc ], events |-> FrameEvents_default ]

---------------------------------------------------------------------------
(* APU: the operations as functions of the APU record.                     *)

\* Instrumentation: the quarter- and half-frame clocks issued during one call
\* (counted where clock_quarter_frame and clock_half_frame are called).
NoneIssued == [ quarter |-> 0, half |-> 0 ]

\* the APU as one record, so that the calls of one handler compose
APU ==
    [ square1 |-> square1, square2 |-> square2, triangle |-> triangle,
      noise |-> noise, dmc |-> dmc, frame_counter |-> frame_counter,
      frame_irq |-> frame_irq, sample_timer |-> sample_timer,
      sample_rate |-> sample_rate, frame_buffer_limit |-> frame_buffer_limit,
      audio_buffer |-> audio_buffer, cpu_cycle |-> cpu_cycle,
      pending_frame_reset |-> pending_frame_reset,
      issued |-> NoneIssued ]

\* APU::new(sample_rate, audio_buffer)
APU_new(rate, buffer) ==
    [ square1 |-> SquareChannel_new(TRUE), square2 |-> SquareChannel_new(FALSE),
      triangle |-> TriangleChannel_new, noise |-> NoiseChannel_new,
      dmc |-> DmcChannel_new, frame_counter |-> FrameCounter_new,
      frame_irq |-> FALSE, sample_timer |-> 0, sample_rate |-> rate,
      frame_buffer_limit |-> rate * 2, audio_buffer |-> buffer,
      cpu_cycle |-> 1, pending_frame_reset |-> None, issued |-> NoneIssued ]

APU_write_register(a, addr, value) ==
    CASE addr = 16384 -> [ a EXCEPT !.square1 = Square_write_control(a.square1, value) ]
      [] addr = 16385 -> [ a EXCEPT !.square1 = Square_write_sweep(a.square1, value) ]
      [] addr = 16386 -> [ a EXCEPT !.square1 = Square_write_timer_low(a.square1, value) ]
      [] addr = 16387 -> [ a EXCEPT !.square1 = Square_write_timer_high(a.square1, value) ]
      [] addr = 16388 -> [ a EXCEPT !.square2 = Square_write_control(a.square2, value) ]
      [] addr = 16389 -> [ a EXCEPT !.square2 = Square_write_sweep(a.square2, value) ]
      [] addr = 16390 -> [ a EXCEPT !.square2 = Square_write_timer_low(a.square2, value) ]
      [] addr = 16391 -> [ a EXCEPT !.square2 = Square_write_timer_high(a.square2, value) ]
      [] addr = 16392 -> [ a EXCEPT !.triangle = Triangle_write_control(a.triangle, value) ]
      [] addr = 16394 -> [ a EXCEPT !.triangle = Triangle_write_timer_low(a.triangle, value) ]
      [] addr = 16395 -> [ a EXCEPT !.triangle = Triangle_write_timer_high(a.triangle, value) ]
      [] addr = 16396 -> [ a EXCEPT !.noise = Noise_write_control(a.noise, value) ]
      [] addr = 16398 -> [ a EXCEPT !.noise = Noise_write_period(a.noise, value) ]
      [] addr = 16399 -> [ a EXCEPT !.noise = Noise_write_length(a.noise, value) ]
      [] addr = 16400 -> [ a EXCEPT !.dmc = Dmc_write_control(a.dmc, value) ]
      [] addr = 16401 -> [ a EXCEPT !.dmc = Dmc_write_direct_load(a.dmc, value) ]
      [] addr = 16402 -> [ a EXCEPT !.dmc = Dmc_write_sample_address(a.dmc, value) ]
      [] addr = 16403 -> [ a EXCEPT !.dmc = Dmc_write_sample_length(a.dmc, value) ]
      [] OTHER -> a

APU_write_status(a, value) ==
    LET s1 == Square_set_enabled(a.square1, Bit(value, 0) = 1)
        s2 == Square_set_enabled(a.square2, Bit(value, 1) = 1)
        tr == Triangle_set_enabled(a.triangle, Bit(value, 2) = 1)
        no == Noise_set_enabled(a.noise, Bit(value, 3) = 1)
        dm == Dmc_set_enabled(a.dmc, Bit(value, 4) = 1)
        dm2 == IF ~dm.enabled THEN Dmc_clear_bytes(dm) ELSE Dmc_restart_if_needed(dm)
    IN  [ a EXCEPT !.square1 = IF ~s1.enabled THEN Square_clear_length(s1) ELSE s1,
                   !.square2 = IF ~s2.enabled THEN Square_clear_length(s2) ELSE s2,
                   !.triangle = IF ~tr.enabled THEN Triangle_clear_length(tr) ELSE tr,
                   !.noise = IF ~no.enabled THEN Noise_clear_length(no) ELSE no,
                   !.dmc = Dmc_clear_irq(dm2),
                   !.frame_irq = FALSE ]

\* mutant: bit 4 of the status byte reports the DMC enable flag
APU_status_byte_dmc_enabled(a) ==
      (IF a.square1.length_counter > 0 THEN 1 ELSE 0)
    + (IF a.square2.length_counter > 0 THEN 2 ELSE 0)
    + (IF a.triangle.length_counter > 0 THEN 4 ELSE 0)
    + (IF a.noise.length_counter > 0 THEN 8 ELSE 0)
    + (IF a.dmc.enabled THEN 16 ELSE 0)
    + (IF a.frame_irq THEN 64 ELSE 0)
    + (IF a.dmc.irq_pending THEN 128 ELSE 0)

\* mutant: the parity test of the delay is inverted
FrameResetDelay_swapped(cycle) == IF cycle % 2 = 0 THEN 3 ELSE 4

\* delay of the reset a $4017 write schedules
FrameResetDelay(cycle) == IF cycle % 2 = 0 THEN 4 ELSE 3

APU_write_frame_counter(a, value) ==
    LET mode == IF Bit(value, 7) = 1 THEN "FiveStep" ELSE "FourStep"
    IN  [ a EXCEPT !.frame_counter = FrameCounter_set_irq_inhibit(a.frame_counter,
                                                                  Bit(value, 6) = 1),
                   !.frame_irq = FALSE,
                   !.pending_frame_reset =
                       Some([ delay |-> FrameResetDelay(a.cpu_cycle), mode |-> mode ]) ]

\* the byte read_status returns
APU_status_byte(a) ==
      (IF a.square1.length_counter > 0 THEN 1 ELSE 0)
    + (IF a.square2.length_counter > 0 THEN 2 ELSE 0)
    + (IF a.triangle.length_counter > 0 THEN 4 ELSE 0)
    + (IF a.noise.length_counter > 0 THEN 8 ELSE 0)
    + (IF a.dmc.bytes_remaining > 0 THEN 16 ELSE 0)
    + (IF a.frame_irq THEN 64 ELSE 0)
    + (IF a.dmc.irq_pending THEN 128 ELSE 0)

APU_read_status(a) ==
    [ apu |-> [ a EXCEPT !.frame_irq = FALSE, !.dmc = Dmc_clear_irq(a.dmc) ],
      ret |-> APU_status_byte(a) ]

APU_poll_irq(a) ==
    IF a.dmc.irq_pending
    THEN [ apu |-> [ a EXCEPT !.dmc = Dmc_clear_irq(a.dmc) ], ret |-> Some(0) ]
    ELSE IF a.frame_irq
    THEN [ apu |-> [ a EXCEPT !.frame_irq = FALSE ], ret |-> Some(0) ]
    ELSE [ apu |-> a, ret |-> None ]

APU_provide_dmc_sample(a, value) == [ a EXCEPT !.dmc = Dmc_provide_sample(a.dmc, value) ]

APU_clock_quarter_frame(a) ==
    [ a EXCEPT !.square1 = Square_clock_envelope(a.square1),
               !.square2 = Square_clock_envelope(a.square2),
               !.triangle = Triangle_clock_linear_counter(a.triangle),
               !.noise = Noise_clock_envelope(a.noise),
               !.issued.quarter = a.issued.quarter + 1 ]

APU_clock_half_frame(a) ==
    [ a EXCEPT !.square1 = Square_clock_sweep(Square_clock_length_counter(a.square1)),
               !.square2 = Square_clock_sweep(Square_clock_length_counter(a.square2)),
               !.triangle = Triangle_clock_length_counter(a.triangle),
               !.noise = Noise_clock_length_counter(a.noise),
               !.issued.half = a.issued.half + 1 ]

APU_set_frame_irq(a) == [ a EXCEPT !.frame_irq = TRUE ]

\* tick_frame_reset(): the APU after the call, and whether the reset was carried out
APU_tick_frame_reset(a) ==
    IF a.pending_frame_reset = None
    THEN [ apu |-> a, fired |-> FALSE ]
    ELSE LET reset == Unwrap(a.pending_frame_reset)
             delay == IF reset.delay > 0 THEN reset.delay - 1 ELSE reset.delay
         IN  IF delay = 0
             THEN LET a1 == [ a EXCEPT !.pending_frame_reset = None,
                                       !.frame_counter = FrameCounter_reset(
                                           FrameCounter_set_mode(a.frame_counter,
                                                                 reset.mode)) ]
                  IN  [ apu |-> IF reset.mode = "FiveStep"
                                THEN APU_clock_half_frame(APU_clock_quarter_frame(a1))
                                ELSE a1,
                        fired |-> TRUE ]
             ELSE [ apu |-> [ a EXCEPT !.pending_frame_reset =
                                           Some([ reset EXCEPT !.delay = delay ]) ],
                    fired |-> FALSE ]

\* The value queue_sample computes is a function of the four integer inputs of
\* the mixer; the model keeps the inputs (the f32 itself is not representable).
APU_mix(a) ==
    [ pulse |-> Square_output(a.square1) + Square_output(a.square2),
      t |-> Triangle_output(a.triangle),
      n |-> Noise_output(a.noise),
      d |-> Dmc_output(a.dmc) ]

\* the body of the `if let Ok(mut buffer) = self.audio_buffer.lock()` block
\* mutant: the queue is trimmed only once it is over the limit
Buffer_push_over_limit(buffer, limit, sample) ==
    IF Len(buffer) > limit
    THEN Append(Tail(buffer), sample)
    ELSE Append(buffer, sample)

Buffer_push_bounded(buffer, limit, sample) ==
    IF Len(buffer) >= limit
    THEN Append(Tail(buffer), sample)
    ELSE Append(buffer, sample)

APU_queue_sample(a) ==
    [ a EXCEPT !.audio_buffer =
                   Buffer_push_bounded(a.audio_buffer, a.frame_buffer_limit, APU_mix(a)) ]

\* sample_timer += 1.0; if sample_timer >= cycles_per_sample {...}, with both
\* sides multiplied by sample_rate (cycles_per_sample = CPU_FREQUENCY / sample_rate)
APU_emit(a) ==
    LET t == a.sample_timer + a.sample_rate
    IN  IF t >= CPU_FREQUENCY
        THEN APU_queue_sample([ a EXCEPT !.sample_timer = t - CPU_FREQUENCY ])
        ELSE [ a EXCEPT !.sample_timer = t ]

\* the channel timer ticks of clock()
\* mutant: the pulse and noise timers tick on every cycle
APU_clock_timers_every_cycle(a) ==
    [ a EXCEPT !.square1 = Square_clock_timer(a.square1),
               !.square2 = Square_clock_timer(a.square2),
               !.noise = Noise_clock_timer(a.noise),
               !.triangle = Triangle_clock_timer(a.triangle) ]

APU_clock_timers(a) ==
    LET a1 == IF a.cpu_cycle % 2 = 0
              THEN [ a EXCEPT !.square1 = Square_clock_timer(a.square1),
                              !.square2 = Square_clock_timer(a.square2),
                              !.noise = Noise_clock_timer(a.noise) ]
              ELSE a
    IN  [ a1 EXCEPT !.triangle = Triangle_clock_timer(a1.triangle) ]

\* the frame sequencer part of clock(): tick and dispatch
APU_clock_frame(a) ==
    LET t == FrameCounter_tick(a.frame_counter)
        a0 == [ a EXCEPT !.frame_counter = t.fc ]
        a1 == IF t.events.quarter THEN APU_clock_quarter_frame(a0) ELSE a0
        a2 == IF t.events.half THEN APU_clock_half_frame(a1) ELSE a1
        a3 == IF t.events.irq THEN APU_set_frame_irq(a2) ELSE a2
    IN  [ apu |-> a3, events |-> t.events ]

\* clock(): the APU after the call, the request it returns, what it did on the way
APU_clock(a) ==
    LET r == APU_tick_frame_reset(a)
        d == Dmc_clock(r.apu.dmc)
        a1 == APU_clock_timers([ r.apu EXCEPT !.dmc = d.dmc ])
        f == APU_clock_frame(a1)
        a2 == APU_emit(f.apu)
    IN  [ apu |-> [ a2 EXCEPT !.cpu_cycle = a2.cpu_cycle + 1 ],
          request |-> d.request,
          events |-> f.events,
          reset |-> r.fired,
          reset_issued |-> r.apu.issued,
          mode |-> r.apu.frame_counter.mode,
          reached |-> r.apu.frame_counter.cycle_counter + 1 ]

---------------------------------------------------------------------------
(* Observation of a run.                                                   *)

\* `last` after construction:
\*   op, addr, value, ret  the call, its arguments and what it returned
\*   events                what FrameCounter::tick returned (clock only)
\*   reset, reset_issued   whether tick_frame_reset carried out a reset, and the
\*                         frame clocks it issued
\*   mode, reached         the sequencer's mode at, and the value its cycle counter
\*                         reached in, FrameCounter::tick (before a wrap to zero)
\*   issued                the frame clocks the whole call issued
Last_new ==
    [ op |-> "new", addr |-> 0, value |-> 0, ret |-> None,
      events |-> FrameEvents_default, reset |-> FALSE, reset_issued |-> NoneIssued,
      mode |-> "FourStep", reached |-> 0, issued |-> NoneIssued ]

Last_of(op, addr, value, ret) ==
    [ Last_new EXCEPT !.op = op, !.addr = addr, !.value = value, !.ret = ret ]

\* `last` after a clock() that returned c
Last_clock(c) ==
    [ op |-> "clock", addr |-> 0, value |-> 0, ret |-> c.request,
      events |-> c.events, reset |-> c.reset, reset_issued |-> c.reset_issued,
      mode |-> c.mode, reached |-> c.reached, issued |-> c.apu.issued ]

\* `hist` after construction:
\*   writes17      $4017 writes so far
\*   since17       clocks since the last $4017 write (-1: none yet)
\*   odd17, mode17 whether that write was on an odd CPU cycle, and the mode it asked for
\*   cc17          the cycle counter when it was written
\*   since_irq     clocks since the frame sequencer last raised the IRQ (-1: never)
\*   irq_gap       clocks between the last two times it raised it with no $4017
\*                 write in between (0: not yet twice)
\*   writes        register writes so far ($4000-$4013, $4015, $4017)
\*   dmc_out       a DMC read request was returned and has not been answered
\*   dmc_S, dmc_L  address and length the current DMC sample started with
\*   dmc_reqs      read requests returned since it started
\*   starved       consecutive clocks that found the request unanswered, the sample
\*                 buffer empty, bytes remaining and the channel enabled, and that
\*                 returned no request
\*   snap          the DMC channel as it was when `starved` last was a power of two
\*   recurred      during a starvation the DMC channel came back to `snap`
\*   produced      samples handed to the queue so far
\*   taken         the samples the host has removed from the queue, in order
\*   armed         MMC3: rendering-enabled scanline clocks since the IRQ registers
\*                 were last written, if that left a reload requested, the IRQ
\*                 enabled and none pending (-1 otherwise; counted up to armN + 2)
\*   armN          MMC3: the latch at that write
\*   irq_off       MMC3: the last write to $E000-$FFFF was to an even address
\*   off_clocks    MMC3: rendering-enabled scanline clocks since then (up to 2)
\*   start         the CPU at the call of run (None: not called)
\*   prev          the CPU before the instruction executed last
\*   fetches       the addresses of the opcode fetches of run so far
Hist_new ==
    [ writes17 |-> 0, since17 |-> -1, odd17 |-> FALSE, mode17 |-> "FourStep",
      cc17 |-> 0, since_irq |-> -1, irq_gap |-> 0, writes |-> 0,
      dmc_out |-> FALSE, dmc_S |-> 0, dmc_L |-> 0, dmc_reqs |-> 0,
      starved |-> 0, snap |-> DmcChannel_new, recurred |-> FALSE,
      produced |-> 0, taken |-> << >>,
      armed |-> -1, armN |-> 0, irq_off |-> FALSE, off_clocks |-> 0,
      sel |-> 0, raw |-> << 0, 2, 4, 5, 6, 7, 0, 1 >>,
      serial |-> << >>, bank |-> 0,
      start |-> None, prev |-> None, fetches |-> << >> ]

StarveMarks == { Pow2(k) : k \in 0 .. 12 }

\* the request of the last clock is still unanswered and the conditions of a fetch
\* still hold in the channel d
Starving(h, d) ==
    h.dmc_out /\ d.sample_buffer = None /\ d.bytes_remaining > 0 /\ d.enabled

Hist_clock(h, a, c) ==
    LET starve == Starving(h, a.dmc) /\ c.request = None
        n == IF starve THEN h.starved + 1 ELSE 0
    IN
    [ h EXCEPT !.dmc_out = h.dmc_out \/ IsSome(c.request),
               !.dmc_reqs = IF IsSome(c.request) THEN h.dmc_reqs + 1 ELSE h.dmc_reqs,
               !.starved = n,
               !.recurred = h.recurred \/ (starve /\ h.starved >= 1 /\ c.apu.dmc = h.snap),
               !.snap = IF n \in StarveMarks THEN c.apu.dmc ELSE h.snap,
               !.since17 = IF h.since17 < 0 THEN h.since17 ELSE h.since17 + 1,
               !.since_irq = IF c.events.irq THEN 0
                             ELSE IF h.since_irq < 0 THEN h.since_irq
                             ELSE h.since_irq + 1,
               !.irq_gap = IF c.events.irq /\ h.since_irq >= 0 THEN h.since_irq + 1
                           ELSE h.irq_gap ]

Hist_write(h) == [ h EXCEPT !.writes = h.writes + 1 ]

\* `hist` after a $4015 write took the APU from a to b: a sample has started when
\* bytes_remaining went from zero to non-zero
Hist_write_status(h, a, b) ==
    LET started == a.dmc.bytes_remaining = 0 /\ b.dmc.bytes_remaining > 0
    IN  [ h EXCEPT !.writes = h.writes + 1,
                   !.dmc_out = h.dmc_out /\ b.dmc.bytes_remaining > 0,
                   !.starved = 0,
                   !.dmc_S = IF started THEN b.dmc.current_address ELSE h.dmc_S,
                   !.dmc_L = IF started THEN b.dmc.bytes_remaining ELSE h.dmc_L,
                   !.dmc_reqs = IF started THEN 0 ELSE h.dmc_reqs ]

\* `hist` after provide_dmc_sample took the APU from a to b: the sample has
\* started again when an accepted answer did not leave fewer bytes remaining
Hist_provide(h, a, b) ==
    LET accepted == b.dmc # a.dmc
        started == accepted /\ b.dmc.bytes_remaining >= a.dmc.bytes_remaining
                            /\ b.dmc.bytes_remaining > 0
    IN  [ h EXCEPT !.dmc_out = FALSE,
                   !.starved = 0,
                   !.dmc_S = IF started THEN b.dmc.current_address ELSE h.dmc_S,
                   !.dmc_L = IF started THEN b.dmc.bytes_remaining ELSE h.dmc_L,
                   !.dmc_reqs = IF started THEN 0 ELSE h.dmc_reqs ]

Hist_write17(h, a, value) ==
    [ h EXCEPT !.writes = h.writes + 1,
               !.writes17 = h.writes17 + 1,
               !.since17 = 0,
               !.odd17 = (a.cpu_cycle % 2 = 1),
               !.mode17 = IF Bit(value, 7) = 1 THEN "FiveStep" ELSE "FourStep",
               !.cc17 = a.frame_counter.cycle_counter,
               !.since_irq = -1,
               !.irq_gap = 0 ]

---------------------------------------------------------------------------
(* Actions: the entry points of APU.                                       *)

Install(a) ==
    /\ square1' = a.square1
    /\ square2' = a.square2
    /\ triangle' = a.triangle
    /\ noise' = a.noise
    /\ dmc' = a.dmc
    /\ frame_counter' = a.frame_counter
    /\ frame_irq' = a.frame_irq
    /\ sample_timer' = a.sample_timer
    /\ sample_rate' = a.sample_rate
    /\ frame_buffer_limit' = a.frame_buffer_limit
    /\ audio_buffer' = a.audio_buffer
    /\ cpu_cycle' = a.cpu_cycle
    /\ pending_frame_reset' = a.pending_frame_reset
    /\ mapper' = mapper
    /\ cpu' = cpu
    /\ pulse' = pulse

threads == << mutex, emu_pc, host_pc >>

\* APU::new(rate, buffer), the host thread not yet started
ApuStart(rate, buffer) ==
    /\ square1 = APU_new(rate, buffer).square1
    /\ square2 = APU_new(rate, buffer).square2
    /\ triangle = APU_new(rate, buffer).triangle
    /\ noise = APU_new(rate, buffer).noise
    /\ dmc = APU_new(rate, buffer).dmc
    /\ frame_counter = APU_new(rate, buffer).frame_counter
    /\ frame_irq = APU_new(rate, buffer).frame_irq
    /\ sample_timer = APU_new(rate, buffer).sample_timer
    /\ sample_rate = APU_new(rate, buffer).sample_rate
    /\ frame_buffer_limit = APU_new(rate, buffer).frame_buffer_limit
    /\ audio_buffer = APU_new(rate, buffer).audio_buffer
    /\ cpu_cycle = APU_new(rate, buffer).cpu_cycle
    /\ pending_frame_reset = APU_new(rate, buffer).pending_frame_reset
    /\ last = Last_new
    /\ hist = Hist_new
    /\ mutex = "free"
    /\ emu_pc = "idle"
    /\ host_pc = "idle"

\* the same, no PulseChannel constructed
ApuPowerOn(rate, buffer) ==
    /\ ApuStart(rate, buffer)
    /\ pulse = None

\* the APU without a CPU core beside it
PowerOn(rate, buffer) ==
    /\ ApuPowerOn(rate, buffer)
    /\ cpu = None

\* the APU on its own, no cartridge inserted
New(rate, buffer) ==
    /\ PowerOn(rate, buffer)
    /\ mapper = None

\* one call of clock(), while the run is shorter than `cycles`
Clock(cycles) ==
    /\ cpu_cycle < cycles
    /\ LET c == APU_clock(APU)
       IN  /\ Install(c.apu)
           /\ last' = Last_clock(c)
           /\ hist' = Hist_clock(hist, APU, c)
    /\ UNCHANGED threads

\* a CPU write of `value` to $4017
WriteFrameCounter(value) ==
    /\ Install(APU_write_frame_counter(APU, value))
    /\ last' = Last_of("write_frame_counter", 16407, value, None)
    /\ hist' = Hist_write17(hist, APU, value)
    /\ UNCHANGED threads

\* a CPU write of `value` to the channel register `addr` ($4000-$4013)
WriteRegister(addr, value) ==
    /\ Install(APU_write_register(APU, addr, value))
    /\ last' = Last_of("write_register", addr, value, None)
    /\ hist' = Hist_write(hist)
    /\ UNCHANGED threads

\* a CPU write of `value` to $4015
WriteStatus(value) ==
    /\ Install(APU_write_status(APU, value))
    /\ last' = Last_of("write_status", 16405, value, None)
    /\ hist' = Hist_write_status(hist, APU, APU_write_status(APU, value))
    /\ UNCHANGED threads

\* a CPU read of $4015
ReadStatus ==
    /\ LET r == APU_read_status(APU)
       IN  /\ Install(r.apu)
           /\ last' = Last_of("read_status", 16405, 0, Some(r.ret))
    /\ UNCHANGED << hist, threads >>

\* the CPU core samples the IRQ line
PollIrq ==
    /\ LET r == APU_poll_irq(APU)
       IN  /\ Install(r.apu)
           /\ last' = Last_of("poll_irq", 0, 0, r.ret)
    /\ UNCHANGED << hist, threads >>

\* the bus hands the APU the byte of a DMC fetch
ProvideDmcSample(value) ==
    /\ Install(APU_provide_dmc_sample(APU, value))
    /\ last' = Last_of("provide_dmc_sample", 0, value, None)
    /\ hist' = Hist_provide(hist, APU, APU_provide_dmc_sample(APU, value))
    /\ UNCHANGED threads

---------------------------------------------------------------------------
(* Cartridge memory.  A Vec<u8> is its length, what it was filled with     *)
(* (the bytes of the ROM image, or zeros) and the bytes written since.     *)

\* byte i of the ROM image the cartridge was built from
RomByte(i) == ((i % 256) + 7 * (i \div 256)) % 256

\* a Vec<u8> holding the first len bytes of the ROM image
Vec_rom(len) == [ len |-> len, fill |-> "rom", written |-> << >> ]

\* vec![0; len]
Vec_zeroed(len) == [ len |-> len, fill |-> "zero", written |-> << >> ]

\* v[i]
Vec_get(v, i) ==
    IF i \in DOMAIN v.written THEN v.written[i]
    ELSE IF v.fill = "zero" THEN 0 ELSE RomByte(i)

\* v[i] = x
Vec_set(v, i, x) ==
    [ v EXCEPT !.written = [ j \in DOMAIN v.written \cup { i } |->
                                IF j = i THEN x ELSE v.written[j] ] ]

\* v[i] as the result of a call: None when i is out of bounds and the call panics
Vec_at(v, i) == IF i < v.len THEN Some(Vec_get(v, i)) ELSE None

\* a & !(size - 1), size a power of two
AlignDown(a, size) == a - (a % size)

---------------------------------------------------------------------------
(* MMC3 (mapper/mmc3.rs).                                                  *)

PRG_BANK_SIZE == 8192
CHR_BANK_SIZE_1K == 1024
CHR_BANK_SIZE_2K == 2048

Mmc3Mapper_new(prg_rom, chr_rom, mirroring) ==
    [ prg_rom |-> prg_rom,
      chr |-> IF chr_rom.len = 0 THEN Vec_zeroed(8192) ELSE chr_rom,
      chr_is_ram |-> chr_rom.len = 0,
      prg_ram |-> Vec_zeroed(8192),
      prg_ram_enable |-> TRUE,
      prg_ram_write_protect |-> FALSE,
      bank_registers |-> << 0, 2, 4, 5, 6, 7, 0, 1 >>,
      selected_register |-> 0,
      chr_inversion |-> FALSE,
      prg_mode |-> FALSE,
      mirroring |-> mirroring,
      mirroring_locked |-> mirroring = "FourScreen",
      irq_latch |-> 0,
      irq_counter |-> 0,
      irq_reload |-> FALSE,
      irq_enabled |-> FALSE,
      irq_pending |-> FALSE ]

Mmc3_prg_bank_count(m) ==
    LET count == m.prg_rom.len \div PRG_BANK_SIZE
    IN  IF count = 0 THEN 1 ELSE count

Mmc3_prg_bank_offset_by_index(m, bank_index) ==
    IF m.prg_rom.len = 0 THEN 0
    ELSE ((bank_index % Mmc3_prg_bank_count(m)) * PRG_BANK_SIZE) % m.prg_rom.len

\* count.saturating_sub(index_from_end)
Mmc3_fixed_prg_bank_offset(m, index_from_end) ==
    IF m.prg_rom.len = 0 THEN 0
    ELSE LET count == Mmc3_prg_bank_count(m)
             index == IF count >= index_from_end THEN count - index_from_end ELSE 0
         IN  Mmc3_prg_bank_offset_by_index(m, index)

Mmc3_prg_bank_offset_from_reg(m, reg) ==
    Mmc3_prg_bank_offset_by_index(m, m.bank_registers[reg + 1])

\* mutant: the PRG mode bit is ignored, the slots are always those of mode 0
Mmc3_prg_addr_mode0(m, addr) ==
    IF m.prg_rom.len = 0 \/ addr < 32768 \/ addr > 65535 THEN None
    ELSE LET bank_offset ==
                 IF addr <= 40959 THEN Mmc3_prg_bank_offset_from_reg(m, 6)
                 ELSE IF addr <= 49151 THEN Mmc3_prg_bank_offset_from_reg(m, 7)
                 ELSE IF addr <= 57343 THEN Mmc3_fixed_prg_bank_offset(m, 2)
                 ELSE Mmc3_fixed_prg_bank_offset(m, 1)
             offset == addr % PRG_BANK_SIZE
         IN  Some((bank_offset + offset) % m.prg_rom.len)

Mmc3_prg_addr(m, addr) ==
    IF m.prg_rom.len = 0 \/ addr < 32768 \/ addr > 65535 THEN None
    ELSE LET bank_offset ==
                 IF addr <= 40959
                 THEN (IF m.prg_mode THEN Mmc3_fixed_prg_bank_offset(m, 2)
                       ELSE Mmc3_prg_bank_offset_from_reg(m, 6))
                 ELSE IF addr <= 49151 THEN Mmc3_prg_bank_offset_from_reg(m, 7)
                 ELSE IF addr <= 57343
                 THEN (IF m.prg_mode THEN Mmc3_prg_bank_offset_from_reg(m, 6)
                       ELSE Mmc3_fixed_prg_bank_offset(m, 2))
                 ELSE Mmc3_fixed_prg_bank_offset(m, 1)
             offset == addr % PRG_BANK_SIZE
         IN  Some((bank_offset + offset) % m.prg_rom.len)

Mmc3_chr_bank_offset(m, register, bank_size) ==
    IF m.chr.len = 0 THEN 0
    ELSE LET value == m.bank_registers[register + 1]
             bank0 == IF register <= 1 THEN AlignDown(value, 2) ELSE value
             total_1k_banks == m.chr.len \div CHR_BANK_SIZE_1K
             normalized == IF total_1k_banks = 0 THEN 1 ELSE total_1k_banks
             bank == bank0 % normalized
             base == (bank * CHR_BANK_SIZE_1K) % m.chr.len
         IN  AlignDown(base, bank_size)

\* mutant: with CHR inversion the 2 KiB banks at $1000 and $1800 are exchanged
Mmc3_chr_region_swapped_2k(m, addr) ==
    IF ~m.chr_inversion
    THEN IF addr <= 2047 THEN << 0, CHR_BANK_SIZE_2K, 0 >>
         ELSE IF addr <= 4095 THEN << 1, CHR_BANK_SIZE_2K, 2048 >>
         ELSE IF addr <= 5119 THEN << 2, CHR_BANK_SIZE_1K, 4096 >>
         ELSE IF addr <= 6143 THEN << 3, CHR_BANK_SIZE_1K, 5120 >>
         ELSE IF addr <= 7167 THEN << 4, CHR_BANK_SIZE_1K, 6144 >>
         ELSE IF addr <= 8191 THEN << 5, CHR_BANK_SIZE_1K, 7168 >>
         ELSE << 2, CHR_BANK_SIZE_1K, 4096 >>
    ELSE IF addr <= 1023 THEN << 2, CHR_BANK_SIZE_1K, 0 >>
         ELSE IF addr <= 2047 THEN << 3, CHR_BANK_SIZE_1K, 1024 >>
         ELSE IF addr <= 3071 THEN << 4, CHR_BANK_SIZE_1K, 2048 >>
         ELSE IF addr <= 4095 THEN << 5, CHR_BANK_SIZE_1K, 3072 >>
         ELSE IF addr <= 6143 THEN << 1, CHR_BANK_SIZE_2K, 4096 >>
         ELSE IF addr <= 8191 THEN << 0, CHR_BANK_SIZE_2K, 6144 >>
         ELSE << 2, CHR_BANK_SIZE_1K, 0 >>

\* the (register, bank_size, base) of the match on addr
Mmc3_chr_region(m, addr) ==
    IF ~m.chr_inversion
    THEN IF addr <= 2047 THEN << 0, CHR_BANK_SIZE_2K, 0 >>
         ELSE IF addr <= 4095 THEN << 1, CHR_BANK_SIZE_2K, 2048 >>
         ELSE IF addr <= 5119 THEN << 2, CHR_BANK_SIZE_1K, 4096 >>
         ELSE IF addr <= 6143 THEN << 3, CHR_BANK_SIZE_1K, 5120 >>
         ELSE IF addr <= 7167 THEN << 4, CHR_BANK_SIZE_1K, 6144 >>
         ELSE IF addr <= 8191 THEN << 5, CHR_BANK_SIZE_1K, 7168 >>
         ELSE << 2, CHR_BANK_SIZE_1K, 4096 >>
    ELSE IF addr <= 1023 THEN << 2, CHR_BANK_SIZE_1K, 0 >>
         ELSE IF addr <= 2047 THEN << 3, CHR_BANK_SIZE_1K, 1024 >>
         ELSE IF addr <= 3071 THEN << 4, CHR_BANK_SIZE_1K, 2048 >>
         ELSE IF addr <= 4095 THEN << 5, CHR_BANK_SIZE_1K, 3072 >>
         ELSE IF addr <= 6143 THEN << 0, CHR_BANK_SIZE_2K, 4096 >>
         ELSE IF addr <= 8191 THEN << 1, CHR_BANK_SIZE_2K, 6144 >>
         ELSE << 2, CHR_BANK_SIZE_1K, 0 >>

Mmc3_chr_addr(m, addr) ==
    IF m.chr.len = 0 THEN addr % 8192
    ELSE LET r == Mmc3_chr_region(m, addr)
             bank_offset == Mmc3_chr_bank_offset(m, r[1], r[2])
             offset == (addr - r[3]) % r[2]
         IN  (bank_offset + offset) % m.chr.len

Mmc3_write_bank_select(m, data) ==
    [ m EXCEPT !.selected_register = data % 8,
               !.prg_mode = Bit(data, 6) = 1,
               !.chr_inversion = Bit(data, 7) = 1 ]

Mmc3_write_bank_data(m, data) ==
    LET target == m.selected_register % 8
        value == IF target <= 1 THEN AlignDown(data, 2) ELSE data
    IN  [ m EXCEPT !.bank_registers[target + 1] = value ]

Mmc3_update_mirroring(m, data) ==
    IF m.mirroring_locked THEN m
    ELSE [ m EXCEPT !.mirroring = IF Bit(data, 0) = 0 THEN "Vertical" ELSE "Horizontal" ]

Mmc3_update_prg_ram_protection(m, data) ==
    [ m EXCEPT !.prg_ram_enable = Bit(data, 7) = 1,
               !.prg_ram_write_protect = Bit(data, 6) = 1 ]

Mmc3_reload_irq_counter(m) == [ m EXCEPT !.irq_counter = m.irq_latch ]

\* mutant: a reload request is ignored, the counter reloads only from 0
Mmc3_clock_irq_counter_from_zero(m) ==
    LET m1 == IF m.irq_counter = 0
              THEN [ Mmc3_reload_irq_counter(m) EXCEPT !.irq_reload = FALSE ]
              ELSE [ m EXCEPT !.irq_counter = (m.irq_counter - 1) % 256 ]
    IN  IF m1.irq_counter = 0 /\ m1.irq_enabled
        THEN [ m1 EXCEPT !.irq_pending = TRUE ]
        ELSE m1

Mmc3_clock_irq_counter(m) ==
    LET m1 == IF m.irq_reload \/ m.irq_counter = 0
              THEN [ Mmc3_reload_irq_counter(m) EXCEPT !.irq_reload = FALSE ]
              ELSE [ m EXCEPT !.irq_counter = (m.irq_counter - 1) % 256 ]
    IN  IF m1.irq_counter = 0 /\ m1.irq_enabled
        THEN [ m1 EXCEPT !.irq_pending = TRUE ]
        ELSE m1

\* mutant: disabling the IRQ leaves a pending IRQ pending
Mmc3_irq_disable_keeps_pending(m) ==
    Mmc3_reload_irq_counter([ m EXCEPT !.irq_enabled = FALSE ])

\* the write to an even address in $E000-$FFFF
Mmc3_irq_disable(m) ==
    Mmc3_reload_irq_counter([ m EXCEPT !.irq_enabled = FALSE, !.irq_pending = FALSE ])

Mmc3_read_prg(m, addr) ==
    IF addr >= 24576 /\ addr <= 32767
    THEN (IF m.prg_ram_enable THEN Vec_get(m.prg_ram, addr - 24576) ELSE 255)
    ELSE IF addr >= 32768 /\ addr <= 65535
    THEN (IF IsSome(Mmc3_prg_addr(m, addr))
          THEN Vec_get(m.prg_rom, Unwrap(Mmc3_prg_addr(m, addr)))
          ELSE 0)
    ELSE 0

Mmc3_write_prg(m, addr, data) ==
    LET even == addr % 2 = 0
    IN  IF addr >= 24576 /\ addr <= 32767
        THEN (IF m.prg_ram_enable /\ ~m.prg_ram_write_protect
              THEN [ m EXCEPT !.prg_ram = Vec_set(m.prg_ram, addr - 24576, data) ]
              ELSE m)
        ELSE IF addr >= 32768 /\ addr <= 40959
        THEN (IF even THEN Mmc3_write_bank_select(m, data)
              ELSE Mmc3_write_bank_data(m, data))
        ELSE IF addr >= 40960 /\ addr <= 49151
        THEN (IF even THEN Mmc3_update_mirroring(m, data)
              ELSE Mmc3_update_prg_ram_protection(m, data))
        ELSE IF addr >= 49152 /\ addr <= 57343
        THEN (IF even THEN [ m EXCEPT !.irq_latch = data ]
              ELSE [ m EXCEPT !.irq_reload = TRUE ])
        ELSE IF addr >= 57344 /\ addr <= 65535
        THEN (IF even
              THEN Mmc3_irq_disable(m)
              ELSE [ m EXCEPT !.irq_enabled = TRUE ])
        ELSE m

Mmc3_read_chr(m, addr) ==
    IF m.chr.len = 0 THEN 0 ELSE Vec_get(m.chr, Mmc3_chr_addr(m, addr))

Mmc3_write_chr(m, addr, data) ==
    IF m.chr_is_ram /\ m.chr.len # 0
    THEN [ m EXCEPT !.chr = Vec_set(m.chr, Mmc3_chr_addr(m, addr), data) ]
    ELSE m

Mmc3_handle_scanline(m, rendering_enabled) ==
    IF rendering_enabled THEN Mmc3_clock_irq_counter(m) ELSE m

Mmc3_poll_irq(m) == IF m.irq_pending THEN Some(0) ELSE None

---------------------------------------------------------------------------
(* SpecFrame: the frame sequencer from power-on.  The CPU may write $4017  *)
(* during the first cycles of the run; the APU is clocked throughout.      *)

FrameValues == { 0, 64, 128, 192 }

InitFrame == New(ClockSampleRate, << >>)

NextFrame ==
    \/ Clock(MaxFrameCycles)
    \/ \E v \in FrameValues :
          /\ hist.writes17 < MaxFrameWrites
          /\ cpu_cycle <= LastFrameWriteCycle
          /\ WriteFrameCounter(v)

SpecFrame == InitFrame /\ [][NextFrame]_vars

---------------------------------------------------------------------------
(* SpecReset: the delayed reset in the middle of a sequence.  The CPU may  *)
(* write $4017 on two neighbouring cycles (one odd, one even) just before  *)
(* the second step of the sequence.                                        *)

InitReset == New(ClockSampleRate, << >>)

NextReset ==
    \/ Clock(MaxResetCycles)
    \/ \E v \in FrameValues :
          /\ hist.writes17 < MaxResetWrites
          /\ cpu_cycle \in ResetWriteFrom .. ResetWriteFrom + 1
          /\ WriteFrameCounter(v)

SpecReset == InitReset /\ [][NextReset]_vars

---------------------------------------------------------------------------
(* Claims about the frame sequencer.                                       *)

\* the frame clocks FrameCounter::tick made the last clock() issue
TickIssued ==
    [ quarter |-> last.issued.quarter - last.reset_issued.quarter,
      half |-> last.issued.half - last.reset_issued.half ]

\* C1: in 4-step mode a clock() issues a quarter-frame clock exactly when the
\* cycle counter reaches 3729, 7457, 11186 or 14916 and a half-frame clock exactly
\* at 7457 and 14916; the sequencer raises the frame IRQ exactly at 14916 (and
\* only with IRQ inhibit clear), the flag is then set, and counter and step index
\* restart from zero; the counter never passes 14916, and two consecutive IRQs of
\* an undisturbed sequence are 14915 clocks apart within one clock.
C1_FourStepSchedule ==
    (last.op = "clock" /\ last.mode = "FourStep") =>
        /\ TickIssued.quarter = (IF last.reached \in { 3729, 7457, 11186, 14916 }
                                 THEN 1 ELSE 0)
        /\ TickIssued.half = (IF last.reached \in { 7457, 14916 } THEN 1 ELSE 0)
        /\ last.events.irq = (last.reached = 14916 /\ ~frame_counter.irq_inhibit)
        /\ last.events.irq => frame_irq
        /\ last.reached <= 14916
        /\ (last.reached = 14916) =
               (frame_counter.cycle_counter = 0 /\ frame_counter.step_index = 0)
        /\ hist.irq_gap # 0 => hist.irq_gap \in 14914 .. 14916

\* C1 witness: the second IRQ of an undisturbed 4-step run has just been raised
C1_Witness ==
    /\ last.op = "clock"
    /\ last.mode = "FourStep"
    /\ last.events.irq
    /\ frame_irq
    /\ hist.irq_gap = 14916
    /\ hist.writes17 = 0

\* C3: in 5-step mode a clock() issues a quarter-frame clock exactly when the cycle
\* counter reaches 3729, 7457, 11186 or 18641 and a half-frame clock exactly at 7457
\* and 18641 (nothing at 14916); counter and step index restart from zero after
\* 18641; the sequencer never raises the frame IRQ, whatever the inhibit bit.
C3_FiveStepSchedule ==
    /\ (last.op = "clock" /\ last.mode = "FiveStep") =>
        /\ TickIssued.quarter = (IF last.reached \in { 3729, 7457, 11186, 18641 }
                                 THEN 1 ELSE 0)
        /\ TickIssued.half = (IF last.reached \in { 7457, 18641 } THEN 1 ELSE 0)
        /\ ~last.events.irq
        /\ last.reached <= 18641
        /\ (last.reached = 18641) =
               (frame_counter.cycle_counter = 0 /\ frame_counter.step_index = 0)
    /\ (frame_counter.mode = "FiveStep" /\ pending_frame_reset = None) => ~frame_irq

\* C3 witness: a 5-step sequence with IRQ inhibit clear has restarted after 18641
\* and reached the first step of its second round
C3_Witness ==
    /\ last.op = "clock"
    /\ last.mode = "FiveStep"
    /\ ~frame_counter.irq_inhibit
    /\ last.reached = 3729
    /\ cpu_cycle > 18641
    /\ TickIssued.quarter = 1

\* the number of the clock after a $4017 write on which its reset is due
ResetDue == IF hist.odd17 THEN 3 ELSE 4

\* C2: after a $4017 write the reset is carried out on the 3rd following clock if
\* the write was on an odd CPU cycle and on the 4th if it was on an even one, and
\* on no other clock: until then the reset stays pending and the sequencer keeps
\* counting in its old mode; at the reset the new mode is installed and counter and
\* step index are zero (the counter then ticks to 1 in the same clock); the reset
\* issues one quarter- and one half-frame clock if the new mode is 5-step, none if
\* it is 4-step.
C2_DelayedReset ==
    /\ (last.op = "clock" /\ last.reset) => hist.since17 = ResetDue
    /\ (hist.since17 >= 0 /\ hist.since17 < ResetDue) =>
          /\ pending_frame_reset =
                 Some([ delay |-> ResetDue - hist.since17, mode |-> hist.mode17 ])
          /\ frame_counter.cycle_counter \in { hist.cc17 + hist.since17, 0 }
    /\ hist.since17 = ResetDue =>
          /\ last.op = "clock"
          /\ last.reset
          /\ pending_frame_reset = None
          /\ frame_counter.mode = hist.mode17
          /\ last.reached = 1
          /\ frame_counter.cycle_counter = 1
          /\ frame_counter.step_index = 0
          /\ last.reset_issued = (IF hist.mode17 = "FiveStep"
                                  THEN [ quarter |-> 1, half |-> 1 ]
                                  ELSE NoneIssued)
          /\ last.issued = last.reset_issued

\* C2 witness: a write on an even cycle in the middle of a sequence, asking for
\* 5-step mode, has its reset carried out on the 4th clock
C2_Witness ==
    /\ hist.since17 = 4
    /\ ~hist.odd17
    /\ hist.mode17 = "FiveStep"
    /\ hist.cc17 > 7000
    /\ last.reset
    /\ frame_counter.cycle_counter = 1

---------------------------------------------------------------------------
(* SpecStatus: the status register and the IRQ line around the end of the  *)
(* first 4-step sequence.  The APU runs undisturbed from power-on until    *)
(* cycle StatusFrom; from then on the CPU may write the length registers,  *)
(* the DMC registers, $4015 and $4017, read $4015, poll the IRQ line and   *)
(* answer DMC fetches, in any order, between the clocks.                   *)

StatusValues == { 0, 31, 21, 10 }
LengthRegisters == { 16387, 16391, 16395, 16399 }

InitStatus == New(ClockSampleRate, << >>)

NextStatus ==
    \/ Clock(MaxStatusCycles)
    \/ /\ cpu_cycle >= StatusFrom
       /\ hist.writes < MaxStatusWrites
       /\ \/ \E v \in StatusValues : WriteStatus(v)
          \/ \E addr \in LengthRegisters : WriteRegister(addr, 24)
          \/ \E v \in { 143, 15 } : WriteRegister(16400, v)
          \/ WriteRegister(16403, 1)
          \/ WriteFrameCounter(0)
    \/ /\ cpu_cycle >= StatusFrom
       /\ \/ ReadStatus
          \/ PollIrq
          \/ ProvideDmcSample(170)

SpecStatus == InitStatus /\ [][NextStatus]_vars

---------------------------------------------------------------------------
(* Claims about the status register and the IRQ line.                      *)

\* C4 (as claimed): the frame IRQ and the DMC IRQ are level-triggered: a set flag
\* stays set over every step that is not an acknowledging register access (a
\* $4015 read or write; for the frame IRQ also a $4017 write, for the DMC IRQ also
\* a $4010 write with bit 7 clear), and polling the IRQ line changes neither flag.
C4_LevelTriggered ==
    [][ LET access == last'.op \in { "read_status", "write_status" }
            ack_frame == access \/ last'.op = "write_frame_counter"
            ack_dmc == \/ access
                       \/ /\ last'.op = "write_register"
                          /\ last'.addr = 16400
                          /\ Bit(last'.value, 7) = 0
        IN  /\ (frame_irq /\ ~ack_frame) => frame_irq'
            /\ (dmc.irq_pending /\ ~ack_dmc) => dmc'.irq_pending
            /\ last'.op = "poll_irq" =>
                  (frame_irq' = frame_irq /\ dmc'.irq_pending = dmc.irq_pending) ]_vars

\* C5: a read of $4015 returns bits 0..3 set iff the length counter of pulse 1,
\* pulse 2, triangle, noise is non-zero, bit 4 iff DMC bytes_remaining > 0, bit 6
\* iff the frame IRQ flag is set, bit 7 iff the DMC IRQ is pending (bit 5 clear);
\* it clears both IRQ flags, so that a read right after it returns bits 6 and 7
\* clear, and changes nothing else of the APU.
C5_ReadStatus ==
    [][ last'.op = "read_status" =>
          LET r == Unwrap(last'.ret)
          IN  /\ (Bit(r, 0) = 1) = (square1.length_counter # 0)
              /\ (Bit(r, 1) = 1) = (square2.length_counter # 0)
              /\ (Bit(r, 2) = 1) = (triangle.length_counter # 0)
              /\ (Bit(r, 3) = 1) = (noise.length_counter # 0)
              /\ (Bit(r, 4) = 1) = (dmc.bytes_remaining > 0)
              /\ Bit(r, 5) = 0
              /\ (Bit(r, 6) = 1) = frame_irq
              /\ (Bit(r, 7) = 1) = dmc.irq_pending
              /\ r < 256
              /\ frame_irq' = FALSE
              /\ dmc' = [ dmc EXCEPT !.irq_pending = FALSE ]
              /\ last.op = "read_status" => (Bit(r, 6) = 0 /\ Bit(r, 7) = 0)
              /\ UNCHANGED << square1, square2, triangle, noise, frame_counter,
                              sample_timer, sample_rate, frame_buffer_limit,
                              audio_buffer, cpu_cycle, pending_frame_reset >> ]_vars

\* C5 witness: a read has returned $C1 (pulse 1 length, frame IRQ and DMC IRQ) and
\* has cleared both flags
C5_Witness ==
    /\ last.op = "read_status"
    /\ last.ret = Some(193)
    /\ ~frame_irq
    /\ ~dmc.irq_pending
    /\ square1.length_counter > 0

\* C6: a write of v to $4015 sets the five enable flags to bits 0..4 of v; a
\* length-counter channel whose bit is clear has its counter zeroed (and one whose
\* bit is set keeps it); with bit 4 clear DMC bytes_remaining becomes 0; with bit 4
\* set a finished sample (bytes_remaining = 0) is restarted from sample address and
\* sample length, and a sample in progress is left as it is; both IRQ flags are
\* cleared.
C6_WriteStatus ==
    [][ last'.op = "write_status" =>
          LET v == last'.value
              on(n) == Bit(v, n) = 1
          IN  /\ square1'.enabled = on(0)
              /\ square2'.enabled = on(1)
              /\ triangle'.enabled = on(2)
              /\ noise'.enabled = on(3)
              /\ dmc'.enabled = on(4)
              /\ square1'.length_counter = (IF on(0) THEN square1.length_counter ELSE 0)
              /\ square2'.length_counter = (IF on(1) THEN square2.length_counter ELSE 0)
              /\ triangle'.length_counter = (IF on(2) THEN triangle.length_counter ELSE 0)
              /\ noise'.length_counter = (IF on(3) THEN noise.length_counter ELSE 0)
              /\ ~on(4) => dmc'.bytes_remaining = 0
              /\ (on(4) /\ dmc.bytes_remaining = 0) =>
                    /\ dmc'.current_address = dmc.sample_address
                    /\ dmc'.bytes_remaining = dmc.sample_length
              /\ (on(4) /\ dmc.bytes_remaining > 0) =>
                    /\ dmc'.current_address = dmc.current_address
                    /\ dmc'.bytes_remaining = dmc.bytes_remaining
                    /\ dmc'.sample_buffer = dmc.sample_buffer
                    /\ dmc'.pending_fetch = dmc.pending_fetch
              /\ ~dmc'.irq_pending
              /\ ~frame_irq' ]_vars

\* C6 witness: $4015 was written with bit 4 set while a sample was in progress (its
\* position differs from the start of the sample), and bit 0 clear zeroed a loaded
\* pulse 1 length counter
C6_Witness ==
    /\ last.op = "write_status"
    /\ Bit(last.value, 4) = 1
    /\ dmc.enabled
    /\ dmc.bytes_remaining > 0
    /\ dmc.bytes_remaining # dmc.sample_length
    /\ dmc.current_address # dmc.sample_address

---------------------------------------------------------------------------
(* SpecDmc: DMC playback with every fetch answered.  At power-on the CPU   *)
(* runs the usual playback routine, writing $4010, $4011, $4012, $4013 and *)
(* then $4015 with bit 4 set; from then on the APU is clocked, and the bus *)
(* answers each read request before the next clock.                        *)

\* the registers the playback routine writes, in order
PlayRegisters == << 16400, 16401, 16402, 16403, 16405 >>

PlayWrites == Len(PlayRegisters)

\* the next write of the playback routine, with the values to choose from
PlaySample(ctrls, levels, addrs, lens) ==
    /\ hist.writes < PlayWrites
    /\ LET reg == PlayRegisters[hist.writes + 1]
           values == << ctrls, levels, addrs, lens, { 16 } >>[hist.writes + 1]
       IN  \E v \in values :
               IF reg = 16405 THEN WriteStatus(v) ELSE WriteRegister(reg, v)

DmcControls == { 15, 79, 143, 207 }
DmcAddresses == { 0, 255 }
DmcLengths == { 0, 4 }
DmcBytes == { 170 }

InitDmc == New(DmcSampleRate, << >>)

NextDmc ==
    \/ PlaySample(DmcControls, { 0 }, DmcAddresses, DmcLengths)
    \/ /\ hist.writes = PlayWrites
       /\ ~hist.dmc_out
       /\ Clock(MaxDmcCycles)
    \/ /\ hist.dmc_out
       /\ \E v \in DmcBytes : ProvideDmcSample(v)

SpecDmc == InitDmc /\ [][NextDmc]_vars

---------------------------------------------------------------------------
(* Claims about the DMC fetch protocol.                                    *)

\* the address of the k-th byte (k = 0, 1, ...) of a sample that starts at S
SampleAddress(S, k) ==
    IF S + k > 65535 THEN 32768 + (S + k - 65536) ELSE S + k

---------------------------------------------------------------------------
(* SpecLevel: the DMC output level.  The playback routine starts a looping *)
(* one-byte sample at the fastest rate with a chosen $4011 level; every    *)
(* fetch is answered with a byte of all zeros or all ones, and the CPU may *)
(* write $4011 once more during playback.                                  *)

LevelLoads == { 0, 1, 124, 255 }
LevelBytes == { 0, 255 }
LevelRewrites == { 3, 254 }

InitLevel == New(DmcSampleRate, << >>)

NextLevel ==
    \/ PlaySample({ 79 }, LevelLoads, { 0 }, { 0 })
    \/ /\ hist.writes >= PlayWrites
       /\ ~hist.dmc_out
       /\ Clock(MaxLevelCycles)
    \/ /\ hist.dmc_out
       /\ \E v \in LevelBytes : ProvideDmcSample(v)
    \/ /\ hist.writes = PlayWrites
       /\ ~hist.dmc_out
       /\ cpu_cycle = LevelWriteAt
       /\ \E v \in LevelRewrites : WriteRegister(16401, v)

SpecLevel == InitLevel /\ [][NextLevel]_vars

\* C9: a clock on which the DMC timer underflows while not silenced raises
\* output_level by 2 if shift-register bit 0 is 1 and output_level <= 125, lowers
\* it by 2 if bit 0 is 0 and output_level >= 2, and leaves it otherwise; a clock
\* without underflow or while silenced leaves it; a $4011 write sets it to the low
\* 7 bits of the value; nothing else changes it.  output_level stays within 0..127
\* and bits_remaining within 1..8.
C9_OutputLevel ==
    [][ LET level == dmc.output_level
            bit0 == Bit(dmc.shift_register, 0)
        IN  /\ level \in 0 .. 127 /\ dmc'.output_level \in 0 .. 127
            /\ dmc.bits_remaining \in 1 .. 8 /\ dmc'.bits_remaining \in 1 .. 8
            /\ dmc'.output_level =
                  IF last'.op = "clock" /\ dmc.timer_value = 0 /\ ~dmc.silence
                  THEN IF bit0 = 1 /\ level <= 125 THEN level + 2
                       ELSE IF bit0 = 0 /\ level >= 2 THEN level - 2
                       ELSE level
                  ELSE IF last'.op = "write_register" /\ last'.addr = 16401
                  THEN last'.value % 128
                  ELSE level ]_vars

\* C9 witness: playback started at level 124 has shifted out two 1 bits; the first
\* raised the level to 126 and the second, above 125, left it there
C9_Witness ==
    /\ last.op = "clock"
    /\ hist.writes = PlayWrites
    /\ ~dmc.silence
    /\ dmc.shift_register = 63
    /\ dmc.bits_remaining = 6
    /\ dmc.output_level = 126

---------------------------------------------------------------------------
(* SpecStarve: DMC playback on a bus that may fail to answer.  After the   *)
(* playback routine the APU is clocked; the answer to a read request comes *)
(* right after the clock that returned it, or never.                       *)

StarveLengths == { 0, 1 }

InitStarve == New(DmcSampleRate, << >>)

NextStarve ==
    \/ PlaySample({ 15, 79 }, { 0 }, { 0 }, StarveLengths)
    \/ /\ hist.writes = PlayWrites
       /\ Clock(MaxStarveCycles)
    \/ /\ last.op = "clock"
       /\ IsSome(last.ret)
       /\ \E v \in DmcBytes : ProvideDmcSample(v)

SpecStarve == InitStarve /\ [][NextStarve]_vars

\* C8 (as claimed): a DMC read request that is not answered is issued again on a
\* later clock while the sample buffer is empty, bytes remain and the channel is
\* enabled.  The channel is clocked as a function of its own state alone, so while
\* it starves it never comes back to a state it was in earlier in the same
\* starvation: it has issued the request again before that.
C8_RetryBeforeRecurrence == ~hist.recurred

---------------------------------------------------------------------------
(* SpecQueue: the audio sample queue shared by the emulator thread and the *)
(* host audio thread.  The emulator thread sets the DMC level with $4011   *)
(* (so that successive samples differ) and runs queue_sample, which takes  *)
(* the mutex, pushes the mixed sample and releases the mutex.  The host    *)
(* thread takes the mutex, removes samples from the front and releases it. *)
(* The queue handed to APU::new is empty or already holds a sample of      *)
(* silence.                                                                *)

\* emulator thread: a $4011 write that gives the next sample a level of its own
EmuLevel ==
    /\ emu_pc = "idle"
    /\ hist.produced < MaxProduced
    /\ Install(APU_write_register(APU, 16401, hist.produced + 1))
    /\ last' = Last_of("write_register", 16401, hist.produced + 1, None)
    /\ hist' = Hist_write(hist)
    /\ emu_pc' = "ready"
    /\ UNCHANGED << mutex, host_pc >>

\* emulator thread, queue_sample: self.audio_buffer.lock() returns once the mutex
\* is free
EmuLock ==
    /\ emu_pc = "ready"
    /\ mutex = "free"
    /\ mutex' = "emu"
    /\ emu_pc' = "locked"
    /\ Install(APU)
    /\ last' = Last_of("lock", 0, 0, None)
    /\ UNCHANGED << hist, host_pc >>

\* emulator thread, queue_sample: the push under the lock, and the release of the
\* mutex at the end of the block
EmuPush ==
    /\ emu_pc = "locked"
    /\ Install(APU_queue_sample(APU))
    /\ last' = Last_of("queue_sample", 0, 0, None)
    /\ hist' = [ hist EXCEPT !.produced = hist.produced + 1 ]
    /\ mutex' = "free"
    /\ emu_pc' = "idle"
    /\ UNCHANGED host_pc

\* host thread: takes the mutex
HostLock ==
    /\ host_pc = "idle"
    /\ mutex = "free"
    /\ mutex' = "host"
    /\ host_pc' = "locked"
    /\ Install(APU)
    /\ last' = Last_of("host_lock", 0, 0, None)
    /\ UNCHANGED << hist, emu_pc >>

\* host thread: removes the sample at the front
HostPop ==
    /\ host_pc = "locked"
    /\ audio_buffer # << >>
    /\ Install([ APU EXCEPT !.audio_buffer = Tail(audio_buffer) ])
    /\ last' = Last_of("host_pop", 0, 0, None)
    /\ hist' = [ hist EXCEPT !.taken = Append(hist.taken, Head(audio_buffer)) ]
    /\ UNCHANGED threads

\* host thread: releases the mutex
HostUnlock ==
    /\ host_pc = "locked"
    /\ mutex' = "free"
    /\ host_pc' = "idle"
    /\ Install(APU)
    /\ last' = Last_of("host_unlock", 0, 0, None)
    /\ UNCHANGED << hist, emu_pc >>

InitQueue ==
    \E rate \in 1 .. MaxQueueRate :
        \E buffer \in { << >>, << APU_mix(APU_new(rate, << >>)) >> } :
            New(rate, buffer)

NextQueue ==
    \/ EmuLevel
    \/ EmuLock
    \/ EmuPush
    \/ HostLock
    \/ HostPop
    \/ HostUnlock

SpecQueue == InitQueue /\ [][NextQueue]_vars

\* the samples x are in production order: levels rise, after the silence the
\* queue started with
InOrder(x) ==
    \A i, j \in 1 .. Len(x) :
        i < j => (x[i].d < x[j].d \/ (x[i].d = 0 /\ x[j].d = 0))

\* C10: in every interleaving of the emulator thread and the host thread the
\* queue holds at most 2 x sample_rate samples; a sample produced while the queue
\* is at the limit replaces the oldest one and goes to the back, and one produced
\* below the limit is appended; the samples the host has taken followed by those
\* still queued are in production order; and the emulator thread, once it holds
\* the mutex, pushes whatever the length of the queue (it never waits for the
\* host to make room).
C10_BoundedQueue ==
    /\ [](emu_pc = "locked" => ENABLED EmuPush)
    /\ [][ LET limit == 2 * sample_rate
               sample == APU_mix(APU)
           IN  /\ Len(audio_buffer) <= limit
               /\ Len(audio_buffer') <= limit
               /\ frame_buffer_limit = limit
               /\ InOrder(hist.taken' \o audio_buffer')
               /\ last'.op = "queue_sample" =>
                     /\ sample.d = hist.produced'
                     /\ audio_buffer' =
                           IF Len(audio_buffer) = limit
                           THEN Append(Tail(audio_buffer), sample)
                           ELSE Append(audio_buffer, sample)
               /\ last'.op = "host_pop" =>
                     audio_buffer' = Tail(audio_buffer) ]_vars

\* C10 witness: a sample was produced into a full queue while the host held
\* samples it had taken earlier, and the queue is full again
C10_Witness ==
    /\ last.op = "queue_sample"
    /\ hist.produced > 2 * sample_rate
    /\ Len(audio_buffer) = 2 * sample_rate
    /\ Len(hist.taken) > 0
    /\ Len(hist.taken) + Len(audio_buffer) < hist.produced

---------------------------------------------------------------------------
(* Actions: the entry points of a mapper.  The APU is left alone.          *)

apu_vars == << square1, square2, triangle, noise, dmc, frame_counter, frame_irq,
               sample_timer, sample_rate, frame_buffer_limit, audio_buffer,
               cpu_cycle, pending_frame_reset >>

\* a step of the mapper: its state, the call observed and the history after it
MapperStep(m, l, h) ==
    /\ mapper' = m
    /\ last' = l
    /\ hist' = h
    /\ UNCHANGED << apu_vars, threads, cpu, pulse >>

\* `hist` after a write_prg(addr, data) that left the MMC3 as m; sel is the last
\* value written to an even address in $8000-$9FFF, raw[i + 1] the last value
\* written to an odd address there while the low 3 bits of sel were i (the
\* power-on value of the register before any)
Hist_mmc3_write(h, m, addr, data) ==
    IF addr < 49152
    THEN (IF addr >= 32768 /\ addr <= 40959
          THEN (IF addr % 2 = 0 THEN [ h EXCEPT !.sel = data ]
                ELSE [ h EXCEPT !.raw[(h.sel % 8) + 1] = data ])
          ELSE h)
    ELSE LET arm == m.irq_reload /\ m.irq_enabled /\ ~m.irq_pending
             top == addr >= 57344
         IN  [ h EXCEPT !.armed = IF arm THEN 0 ELSE -1,
                        !.armN = m.irq_latch,
                        !.irq_off = IF top THEN addr % 2 = 0 ELSE h.irq_off,
                        !.off_clocks = IF top THEN 0 ELSE h.off_clocks ]

\* `hist` after handle_scanline(rendering_enabled)
Hist_mmc3_scanline(h, rendering_enabled) ==
    IF ~rendering_enabled THEN h
    ELSE [ h EXCEPT !.armed = IF h.armed < 0 \/ h.armed > h.armN + 1 THEN h.armed
                              ELSE h.armed + 1,
                    !.off_clocks = IF h.off_clocks >= 2 THEN 2 ELSE h.off_clocks + 1 ]

Mmc3WritePrg(addr, data) ==
    MapperStep(Mmc3_write_prg(mapper, addr, data),
               Last_of("write_prg", addr, data, None),
               Hist_mmc3_write(hist, Mmc3_write_prg(mapper, addr, data), addr, data))

Mmc3HandleScanline(rendering_enabled) ==
    MapperStep(Mmc3_handle_scanline(mapper, rendering_enabled),
               Last_of("handle_scanline", 0, IF rendering_enabled THEN 1 ELSE 0, None),
               Hist_mmc3_scanline(hist, rendering_enabled))

Mmc3PollIrq ==
    MapperStep(mapper, Last_of("poll_irq", 0, 0, Mmc3_poll_irq(mapper)), hist)

Mmc3ReadPrg(addr) ==
    MapperStep(mapper, Last_of("read_prg", addr, 0, Some(Mmc3_read_prg(mapper, addr))), hist)

Mmc3ReadChr(addr) ==
    MapperStep(mapper, Last_of("read_chr", addr, 0, Some(Mmc3_read_chr(mapper, addr))), hist)

Mmc3WriteChr(addr, data) ==
    MapperStep(Mmc3_write_chr(mapper, addr, data),
               Last_of("write_chr", addr, data, None), hist)

---------------------------------------------------------------------------
(* SpecMmc3Irq: the MMC3 scanline counter.  The CPU writes the IRQ         *)
(* registers ($C000 latch, $C001 reload, $E000 disable, $E001 enable, and  *)
(* their mirrors at the top of each range), the PPU reports scanlines with *)
(* rendering on or off, and the CPU polls the IRQ line, in any order.      *)

LatchValues == { 0, 1, 2, 255 }
IrqRegisters == { 49152, 49153, 57342, 57343, 57344, 57345, 65534, 65535 }

InitMmc3Irq ==
    /\ PowerOn(ClockSampleRate, << >>)
    /\ mapper = Mmc3Mapper_new(Vec_rom(2 * PRG_BANK_SIZE), Vec_rom(8192), "Horizontal")

NextMmc3Irq ==
    \/ \E addr \in IrqRegisters :
           \E data \in (IF addr % 2 = 0 /\ addr < 57344 THEN LatchValues ELSE { 0 }) :
               Mmc3WritePrg(addr, data)
    \/ \E rendering_enabled \in BOOLEAN : Mmc3HandleScanline(rendering_enabled)
    \/ Mmc3PollIrq

SpecMmc3Irq == InitMmc3Irq /\ [][NextMmc3Irq]_vars

\* C11: a scanline clock with rendering enabled reloads the counter from the latch
\* and clears the reload request if the counter is 0 or a reload was requested,
\* and otherwise decrements it; then, if the counter is 0 and the IRQ is enabled,
\* the IRQ becomes pending.  After the IRQ registers were left with a reload
\* requested, the IRQ enabled and none pending, with latch N, the IRQ is pending
\* (and poll_irq reports it) exactly from the (N+1)-th such clock on.
\* handle_scanline(false) changes nothing.
C11_ScanlineCounter ==
    [][ /\ last'.op = "handle_scanline" =>
              IF last'.value = 1
              THEN LET reload == mapper.irq_reload \/ mapper.irq_counter = 0
                       c == IF reload THEN mapper.irq_latch ELSE mapper.irq_counter - 1
                   IN  mapper' = [ mapper EXCEPT
                                     !.irq_counter = c,
                                     !.irq_reload = FALSE,
                                     !.irq_pending = mapper.irq_pending
                                                     \/ (c = 0 /\ mapper.irq_enabled) ]
              ELSE mapper' = mapper
        /\ hist'.armed >= 0 => (mapper'.irq_pending <=> hist'.armed >= hist'.armN + 1)
        /\ last'.op = "poll_irq" =>
              /\ IsSome(last'.ret) <=> mapper.irq_pending
              /\ hist.armed >= 0 => (IsSome(last'.ret) <=> hist.armed >= hist.armN + 1) ]_vars

\* C11 witness: with latch 255 the 256th clock has made the IRQ pending and
\* poll_irq reports it
C11_Witness ==
    /\ last.op = "poll_irq"
    /\ IsSome(last.ret)
    /\ hist.armN = 255
    /\ hist.armed = 256

\* C12: a write to an even address in $E000-$FFFF disables the IRQ and clears a
\* pending IRQ; from then until a write to an odd address there no IRQ is pending,
\* whatever scanlines are clocked, and poll_irq reports none; a pending IRQ is
\* cleared by no other step, and poll_irq leaves the mapper as it is.
C12_IrqDisable ==
    [][ LET top_even == /\ last'.op = "write_prg"
                        /\ last'.addr >= 57344
                        /\ last'.addr % 2 = 0
        IN  /\ top_even => (~mapper'.irq_enabled /\ ~mapper'.irq_pending)
            /\ hist'.irq_off => (~mapper'.irq_pending /\ ~mapper'.irq_enabled)
            /\ (mapper.irq_pending /\ ~mapper'.irq_pending) => top_even
            /\ last'.op = "poll_irq" =>
                  /\ mapper' = mapper
                  /\ hist.irq_off => last'.ret = None ]_vars

\* C12 witness: the IRQ was disabled with latch 1, two scanlines have brought the
\* counter to 0, and poll_irq reports no IRQ
C12_Witness ==
    /\ last.op = "poll_irq"
    /\ last.ret = None
    /\ hist.irq_off
    /\ hist.off_clocks = 2
    /\ mapper.irq_latch = 1
    /\ mapper.irq_counter = 0

---------------------------------------------------------------------------
(* SpecMmc3Prg: MMC3 PRG banking.  The cartridge has 2, 4 or 8 PRG banks   *)
(* of 8 KiB.  The CPU writes bank select and bank data (at both ends of    *)
(* $8000-$9FFF), the PRG-RAM protect and IRQ enable registers, and reads   *)
(* the first and last byte of each 8 KiB slot, in any order.               *)

PrgBankCounts == { 2, 4, 8 }
PrgSelects == { 6, 7, 70, 71, 134 }
PrgBankValues == { 1, 6, 255 }
BankSelectAddrs == { 32768, 40958 }
BankDataAddrs == { 32769, 40959 }
OtherRegisters == { 40961, 57345 }
PrgReadAddrs == { base + k : base \in { 32768, 40960, 49152, 57344 }, k \in { 0, 8191 } }

InitMmc3Prg ==
    /\ PowerOn(ClockSampleRate, << >>)
    /\ \E n \in PrgBankCounts :
           mapper = Mmc3Mapper_new(Vec_rom(n * PRG_BANK_SIZE), Vec_rom(8192), "Vertical")

NextMmc3Prg ==
    \/ \E addr \in BankSelectAddrs : \E data \in PrgSelects : Mmc3WritePrg(addr, data)
    \/ \E addr \in BankDataAddrs : \E data \in PrgBankValues : Mmc3WritePrg(addr, data)
    \/ \E addr \in OtherRegisters : Mmc3WritePrg(addr, 1)
    \/ \E addr \in PrgReadAddrs : Mmc3ReadPrg(addr)

SpecMmc3Prg == InitMmc3Prg /\ [][NextMmc3Prg]_vars

\* the PRG bank the claim names for address a, given the register file regs, the
\* last value sel written to an even address in $8000-$9FFF and n banks
PrgBankOf(a, regs, sel, n) ==
    IF a <= 40959 THEN (IF Bit(sel, 6) = 0 THEN regs[7] % n ELSE n - 2)
    ELSE IF a <= 49151 THEN regs[8] % n
    ELSE IF a <= 57343 THEN (IF Bit(sel, 6) = 0 THEN n - 2 ELSE regs[7] % n)
    ELSE n - 1

\* C13: read_prg(a) returns byte (a & $1FFF) of the bank of a's slot: R6, R7,
\* second-last in mode 0, second-last, R7, R6 in mode 1, and always the last bank
\* at $E000; R6 and R7 are taken modulo the number of banks.  R6 and R7 change
\* only on a write to an odd address in $8000-$9FFF, which puts the value into
\* the register whose index is the low 3 bits of the last value written to an
\* even address there; no other step changes a bank register.
C13_PrgMapping ==
    [][ LET n == mapper.prg_rom.len \div PRG_BANK_SIZE
            a == last'.addr
            data_write == /\ last'.op = "write_prg"
                          /\ a >= 32768 /\ a <= 40959 /\ a % 2 = 1
        IN  /\ last'.op = "read_prg" =>
                  last'.ret = Some(RomByte(PrgBankOf(a, mapper.bank_registers, hist.sel, n)
                                             * 8192 + (a % 8192)))
            /\ (data_write /\ hist.sel % 8 >= 6) =>
                  mapper'.bank_registers =
                      [ mapper.bank_registers EXCEPT ![(hist.sel % 8) + 1] = last'.value ]
            /\ ~data_write =>
                  mapper'.bank_registers = mapper.bank_registers ]_vars

\* C13 witness: mode 1 with R6 = 255 on 4 banks: a read of $DFFF returns the last
\* byte of bank 3, after R7 was set to 1
C13_Witness ==
    /\ last.op = "read_prg"
    /\ last.addr = 57343
    /\ Bit(hist.sel, 6) = 1
    /\ mapper.prg_rom.len = 4 * PRG_BANK_SIZE
    /\ mapper.bank_registers[7] = 255
    /\ mapper.bank_registers[8] = 1
    /\ last.ret = Some(RomByte(3 * 8192 + 8191))

---------------------------------------------------------------------------
(* SpecMmc3Chr: MMC3 CHR banking.  The cartridge has 8 or 32 KiB of CHR    *)
(* ROM.  The CPU selects R0, R1, R2 or R5 with and without CHR inversion   *)
(* and writes bank values; the PPU reads the first and last byte of every  *)
(* 1 KiB of the pattern tables.  R3 and R4 keep their power-on values.     *)

ChrRomSizes == { 8192, 32768 }
ChrSelects == { r + inv : r \in { 0, 1, 2, 5 }, inv \in { 0, 128 } }
ChrBankValues == { 3, 254 }
ChrReadAddrs == { 1024 * i + k : i \in 0 .. 7, k \in { 0, 1023 } }

InitMmc3Chr ==
    /\ PowerOn(ClockSampleRate, << >>)
    /\ \E len \in ChrRomSizes :
           mapper = Mmc3Mapper_new(Vec_rom(2 * PRG_BANK_SIZE), Vec_rom(len), "Vertical")

NextMmc3Chr ==
    \/ \E data \in ChrSelects : Mmc3WritePrg(32768, data)
    \/ \E data \in ChrBankValues : Mmc3WritePrg(32769, data)
    \/ \E addr \in ChrReadAddrs : Mmc3ReadChr(addr)

SpecMmc3Chr == InitMmc3Chr /\ [][NextMmc3Chr]_vars

\* the CHR byte the claim names for address a: regs are the values written to the
\* bank registers, sel the last value written to $8000, total the number of 1 KiB
\* CHR banks.  Inversion exchanges the two halves of the pattern tables.
ChrIndexOf(a, regs, sel, total) ==
    LET b == IF Bit(sel, 7) = 1 THEN (a + 4096) % 8192 ELSE a
    IN  IF b < 2048 THEN (AlignDown(regs[1], 2) % total) * 1024 + (b % 2048)
        ELSE IF b < 4096 THEN (AlignDown(regs[2], 2) % total) * 1024 + (b % 2048)
        ELSE (regs[3 + ((b - 4096) \div 1024)] % total) * 1024 + (b % 1024)

\* C14: read_chr(a) returns the byte at a's offset inside the bank selected for
\* a's region: without inversion R0, R1 (low bit ignored) for the 2 KiB regions at
\* $0000 and $0800 and R2..R5 for the 1 KiB regions at $1000..$1C00; with
\* inversion R2..R5 for $0000..$0C00 and R0, R1 for $1000 and $1800.
C14_ChrMapping ==
    [][ last'.op = "read_chr" =>
           last'.ret = Some(RomByte(ChrIndexOf(last'.addr, hist.raw, hist.sel,
                                               mapper.chr.len \div 1024))) ]_vars

\* C14 witness: with inversion, 32 KiB of CHR and 3 written to R1, the read of
\* $1FFF returns the last byte of the 2 KiB bank at 1 KiB bank 2
C14_Witness ==
    /\ last.op = "read_chr"
    /\ last.addr = 8191
    /\ Bit(hist.sel, 7) = 1
    /\ hist.raw[2] = 3
    /\ mapper.chr.len = 32768
    /\ last.ret = Some(RomByte(2 * 1024 + 2047))

---------------------------------------------------------------------------
(* MMC1 (mapper/mmc1.rs).                                                  *)

Mmc1Mapper_new(prg_rom, chr_rom, mirroring) ==
    LET total_prg_banks == prg_rom.len \div 16384
    IN  [ prg_rom |-> prg_rom,
          chr_rom |-> chr_rom,
          prg_ram |-> Vec_zeroed(8192),
          shift_register |-> 0,
          shift_count |-> 0,
          prg_bank_mode |-> 0,
          chr_bank_mode |-> 0,
          prg_bank_0 |-> 0,
          prg_bank_1 |-> IF total_prg_banks > 1 THEN 1 ELSE 0,
          prg_bank_2 |-> IF total_prg_banks > 2 THEN (total_prg_banks % 256) - 2 ELSE 0,
          prg_bank_3 |-> IF total_prg_banks > 3 THEN (total_prg_banks % 256) - 1 ELSE 0,
          chr_bank_0 |-> 0,
          chr_bank_1 |-> 1,
          chr_bank_2 |-> 2,
          chr_bank_3 |-> 3,
          chr_bank_4 |-> 4,
          chr_bank_5 |-> 5,
          current_mirroring |-> mirroring,
          mirroring_control |-> 0 ]

Mmc1_write_control_register(m, value) ==
    [ m EXCEPT !.mirroring_control = value % 4,
               !.current_mirroring = IF (value % 4) % 2 = 0 THEN "Vertical"
                                     ELSE "Horizontal" ]

Mmc1_write_chr_bank_register(m, reg, value) ==
    IF reg = 0 THEN [ m EXCEPT !.chr_bank_0 = value % 32 ]
    ELSE IF reg = 1 THEN [ m EXCEPT !.chr_bank_1 = value % 32 ]
    ELSE IF reg = 2 THEN [ m EXCEPT !.chr_bank_2 = value % 32 ]
    ELSE IF reg = 3 THEN [ m EXCEPT !.chr_bank_3 = value % 32 ]
    ELSE IF reg = 4 THEN [ m EXCEPT !.chr_bank_4 = value % 32 ]
    ELSE IF reg = 5 THEN [ m EXCEPT !.chr_bank_5 = value % 32 ]
    ELSE m

Mmc1_write_prg_bank_register(m, reg, value) ==
    IF reg = 0 THEN [ m EXCEPT !.prg_bank_0 = value % 16 ]
    ELSE IF reg = 1 THEN [ m EXCEPT !.prg_bank_1 = value % 16 ]
    ELSE IF reg = 2 THEN [ m EXCEPT !.prg_bank_2 = value % 16 ]
    ELSE IF reg = 3 THEN [ m EXCEPT !.prg_bank_3 = value % 16 ]
    ELSE m

\* match self.prg_bank_mode { 0..=3 => control, 4..=5 => CHR bank, 6..=7 => PRG bank }
\* with the shift register as the value
Mmc1_execute_command(m) ==
    IF m.prg_bank_mode <= 3 THEN Mmc1_write_control_register(m, m.shift_register)
    ELSE IF m.prg_bank_mode <= 5
    THEN Mmc1_write_chr_bank_register(m, m.prg_bank_mode - 4, m.shift_register)
    ELSE IF m.prg_bank_mode <= 7
    THEN Mmc1_write_prg_bank_register(m, m.prg_bank_mode - 6, m.shift_register)
    ELSE m

Mmc1_process_write_data(m, reg, value0) ==
    LET value == value0 % 2
    IN  IF value = 0
        THEN Mmc1_execute_command([ m EXCEPT !.shift_count = 0, !.shift_register = 0 ])
        ELSE LET m1 == [ m EXCEPT
                           !.shift_register = Shr(m.shift_register, 1) + 16
                                              - (IF Bit(Shr(m.shift_register, 1), 4) = 1
                                                 THEN 16 ELSE 0),
                           !.shift_count = (m.shift_count + 1) % 256 ]
             IN  IF m1.shift_count = 5
                 THEN [ Mmc1_execute_command(m1) EXCEPT !.shift_count = 0,
                                                        !.shift_register = 0 ]
                 ELSE m1

Mmc1_read_prg(m, addr) ==
    LET total_prg_banks == m.prg_rom.len \div 16384
    IN  IF addr >= 24576 /\ addr <= 32767 THEN Vec_get(m.prg_ram, addr - 24576)
        ELSE IF addr >= 32768 /\ addr <= 49151
        THEN Vec_get(m.prg_rom, (m.prg_bank_0 * 16384 + (addr - 32768)) % m.prg_rom.len)
        ELSE IF addr >= 49152 /\ addr <= 65535
        THEN LET bank_index ==
                     IF m.prg_bank_mode = 0
                     THEN (IF total_prg_banks > 1 THEN (total_prg_banks % 256) - 2 ELSE 0)
                     ELSE IF m.prg_bank_mode = 1
                     THEN (IF total_prg_banks > 1 THEN (total_prg_banks % 256) - 1 ELSE 0)
                     ELSE IF m.prg_bank_mode = 2 THEN m.prg_bank_2
                     ELSE IF m.prg_bank_mode = 3 THEN m.prg_bank_3
                     ELSE 0
             IN  Vec_get(m.prg_rom, (bank_index * 16384 + (addr - 49152)) % m.prg_rom.len)
        ELSE 0

Mmc1_write_prg(m, addr, data) ==
    IF addr >= 24576 /\ addr <= 32767
    THEN [ m EXCEPT !.prg_ram = Vec_set(m.prg_ram, addr - 24576, data) ]
    ELSE IF addr >= 32768 /\ addr <= 65535
    THEN Mmc1_process_write_data([ m EXCEPT !.prg_bank_mode = Shr(addr, 13) % 8 ],
                                 Shr(addr, 13) % 8, data)
    ELSE m

Mmc1_read_chr(m, addr) ==
    IF addr <= 4095
    THEN Vec_get(m.chr_rom, (m.chr_bank_0 * 4096 + addr) % m.chr_rom.len)
    ELSE IF addr >= 4096 /\ addr <= 8191
    THEN Vec_get(m.chr_rom, (m.chr_bank_1 * 4096 + (addr - 4096)) % m.chr_rom.len)
    ELSE 0

Mmc1_write_chr(m, addr, data) == m

Mmc1_mirroring(m) == m.current_mirroring

---------------------------------------------------------------------------
(* SpecMmc1: the MMC1 serial port.  The cartridge has 2 or 4 PRG banks of  *)
(* 16 KiB and 8 KiB of CHR ROM.  The CPU writes bytes with bit 0 and bit 7 *)
(* set or clear to the four register ranges and reads PRG and CHR at the   *)
(* ends of each window, in any order.                                      *)

Mmc1PrgBankCounts == { 2, 4 }
SerialAddrs == { 32768, 40960, 49152, 57344, 65535 }
SerialValues == { 0, 1, 128, 129 }
Mmc1PrgReadAddrs == { 32768, 49151, 49152, 65535 }
Mmc1ChrReadAddrs == { 0, 4095, 4096, 8191 }

\* `hist` after write_prg(addr, data): serial holds bit 0 of the writes of the
\* five-write sequence in progress, as the serial protocol counts them: a write
\* with bit 7 set empties it, and so does the fifth write of a sequence
Hist_mmc1_write(h, addr, data) ==
    IF addr < 32768 THEN h
    ELSE IF data >= 128 \/ Len(h.serial) = 4 THEN [ h EXCEPT !.serial = << >> ]
    ELSE [ h EXCEPT !.serial = Append(h.serial, data % 2) ]

Mmc1WritePrg(addr, data) ==
    MapperStep(Mmc1_write_prg(mapper, addr, data),
               Last_of("write_prg", addr, data, None),
               Hist_mmc1_write(hist, addr, data))

Mmc1ReadPrg(addr) ==
    MapperStep(mapper, Last_of("read_prg", addr, 0, Some(Mmc1_read_prg(mapper, addr))), hist)

Mmc1ReadChr(addr) ==
    MapperStep(mapper, Last_of("read_chr", addr, 0, Some(Mmc1_read_chr(mapper, addr))), hist)

InitMmc1 ==
    /\ PowerOn(ClockSampleRate, << >>)
    /\ \E n \in Mmc1PrgBankCounts :
           mapper = Mmc1Mapper_new(Vec_rom(n * 16384), Vec_rom(8192), "Vertical")

NextMmc1 ==
    \/ \E addr \in SerialAddrs : \E data \in SerialValues : Mmc1WritePrg(addr, data)
    \/ \E addr \in Mmc1PrgReadAddrs : Mmc1ReadPrg(addr)
    \/ \E addr \in Mmc1ChrReadAddrs : Mmc1ReadChr(addr)

SpecMmc1 == InitMmc1 /\ [][NextMmc1]_vars

\* the bank and mirroring registers of the MMC1 m
Mmc1Registers(m) ==
    << m.mirroring_control, m.current_mirroring,
       m.chr_bank_0, m.chr_bank_1, m.chr_bank_2, m.chr_bank_3, m.chr_bank_4, m.chr_bank_5,
       m.prg_bank_0, m.prg_bank_1, m.prg_bank_2, m.prg_bank_3 >>

\* the value of a five-write sequence: bit 0 of each write, first write lowest
SerialValue(bits, fifth) ==
    bits[1] + 2 * bits[2] + 4 * bits[3] + 8 * bits[4] + 16 * (fifth % 2)

\* C15: of five consecutive writes to $8000-$FFFF with bit 7 clear, the first
\* four change no bank or mirroring register, and the fifth loads the value made
\* of the five bit 0s into the register selected by its address: control
\* (mirroring in its low 2 bits) for $8000-$9FFF, CHR0 for $A000-$BFFF, CHR1 for
\* $C000-$DFFF, PRG (4-bit bank) for $E000-$FFFF.
C15_SerialLoad ==
    [][ LET a == last'.addr
            w == last'.op = "write_prg" /\ a >= 32768 /\ last'.value < 128
            v == SerialValue(hist.serial, last'.value)
        IN  /\ (w /\ Len(hist.serial) < 4) =>
                   Mmc1Registers(mapper') = Mmc1Registers(mapper)
            /\ (w /\ Len(hist.serial) = 4) =>
                   IF a <= 40959 THEN mapper'.mirroring_control = v % 4
                   ELSE IF a <= 49151 THEN mapper'.chr_bank_0 = v
                   ELSE IF a <= 57343 THEN mapper'.chr_bank_1 = v
                   ELSE mapper'.prg_bank_0 = v % 16 ]_vars

\* C16: a write to $8000-$FFFF with bit 7 set clears the shift register and its
\* write count, and a read of $C000-$FFFF that follows it returns the byte of the
\* last 16 KiB PRG bank; a write with bit 7 clear adds one to the write count of
\* the sequence (the fifth returns it to 0).
C16_Reset ==
    [][ LET a == last'.addr
            n == mapper.prg_rom.len \div 16384
        IN  /\ (last'.op = "write_prg" /\ a >= 32768 /\ last'.value >= 128) =>
                   (mapper'.shift_register = 0 /\ mapper'.shift_count = 0)
            /\ (last.op = "write_prg" /\ last.addr >= 32768 /\ last.value >= 128
                /\ last'.op = "read_prg" /\ a >= 49152) =>
                   last'.ret = Some(RomByte((n - 1) * 16384 + (a - 49152)))
            /\ (last'.op = "write_prg" /\ a >= 32768 /\ last'.value < 128) =>
                   mapper'.shift_count = (mapper.shift_count + 1) % 5 ]_vars

---------------------------------------------------------------------------
(* CNROM (mapper/cnrom.rs).  A read returns None when the call panics      *)
(* (index out of bounds, or a remainder by the length of an empty ROM).    *)

CnRomMapper_new(prg_rom, chr_rom, mirroring) ==
    [ prg_rom |-> prg_rom, chr_rom |-> chr_rom, chr_bank |-> 0, mirroring |-> mirroring ]

CnRom_read_prg(m, addr) ==
    IF addr >= 32768 /\ addr <= 65535
    THEN (IF m.prg_rom.len = 0 THEN None
          ELSE Vec_at(m.prg_rom, (addr - 32768) % m.prg_rom.len))
    ELSE Some(0)

CnRom_write_prg(m, addr, data) == m

CnRom_read_chr(m, addr) ==
    IF m.chr_rom.len = 0 THEN None
    ELSE Vec_at(m.chr_rom, (m.chr_bank * 8192 + addr) % m.chr_rom.len)

CnRom_write_chr(m, addr, data) ==
    IF addr <= 8191 THEN [ m EXCEPT !.chr_bank = data % 4 ] ELSE m

---------------------------------------------------------------------------
(* UxROM (mapper/uxrom.rs).                                                *)

UxRomMapper_new(prg_rom, chr_rom, mirroring) ==
    [ prg_rom |-> prg_rom, chr_rom |-> chr_rom, prg_bank |-> 0, mirroring |-> mirroring ]

UxRom_read_prg(m, addr) ==
    LET total_prg_banks == m.prg_rom.len \div 16384
    IN  IF addr >= 32768 /\ addr <= 49151
        THEN Vec_at(m.prg_rom, m.prg_bank * 16384 + (addr - 32768))
        ELSE IF addr >= 49152 /\ addr <= 65535
        THEN (IF total_prg_banks = 0 THEN None
              ELSE Vec_at(m.prg_rom, (total_prg_banks - 1) * 16384 + (addr - 49152)))
        ELSE Some(0)

UxRom_write_prg(m, addr, data) ==
    IF addr >= 32768 /\ addr <= 65535 THEN [ m EXCEPT !.prg_bank = data % 16 ] ELSE m

UxRom_read_chr(m, addr) == Vec_at(m.chr_rom, addr)

UxRom_write_chr(m, addr, data) == m

---------------------------------------------------------------------------
(* NROM (mapper/nrom.rs).                                                  *)

NromMapper_new(prg_rom, chr_rom, mirroring) ==
    [ prg_rom |-> prg_rom, chr_rom |-> chr_rom, mirroring |-> mirroring ]

\* mutant: a 16 KiB PRG ROM is not mirrored into $C000-$FFFF
Nrom_read_prg_unmirrored(m, addr) ==
    IF addr < 32768 \/ addr > 65535 THEN Some(0)
    ELSE IF m.prg_rom.len = 0 THEN Some(0)
    ELSE Vec_at(m.prg_rom, addr - 32768)

Nrom_read_prg(m, addr) ==
    IF addr < 32768 \/ addr > 65535 THEN Some(0)
    ELSE IF m.prg_rom.len = 0 THEN Some(0)
    ELSE Vec_at(m.prg_rom, IF m.prg_rom.len = 16384 THEN (addr - 32768) % 16384
                           ELSE addr - 32768)

Nrom_write_prg(m, addr, data) == m

Nrom_read_chr(m, addr) == Vec_at(m.chr_rom, addr)

Nrom_write_chr(m, addr, data) == m

---------------------------------------------------------------------------
(* SpecCnrom: CNROM.  The cartridge has 32 KiB of PRG ROM and 8 or 32 KiB  *)
(* of CHR ROM.  The CPU writes and reads $8000-$FFFF, the PPU reads and    *)
(* writes the pattern tables, in any order.                                *)

CnromChrSizes == { 8192, 32768 }
CnromWriteAddrs == { 32768, 65535 }
CnromValues == { 0, 1, 2, 3, 254 }
CnromPrgReadAddrs == { 32768, 49152, 65535 }
CnromChrAddrs == { 0, 8191 }
CnromChrValues == { 0, 1, 3 }

\* `hist` after write_prg(addr, data): bank is the last value written to
\* $8000-$FFFF
Hist_bank_write(h, addr, data) ==
    IF addr >= 32768 THEN [ h EXCEPT !.bank = data ] ELSE h

CnromWritePrg(addr, data) ==
    MapperStep(CnRom_write_prg(mapper, addr, data),
               Last_of("write_prg", addr, data, None),
               Hist_bank_write(hist, addr, data))

CnromReadPrg(addr) ==
    MapperStep(mapper, Last_of("read_prg", addr, 0, CnRom_read_prg(mapper, addr)), hist)

CnromReadChr(addr) ==
    MapperStep(mapper, Last_of("read_chr", addr, 0, CnRom_read_chr(mapper, addr)), hist)

CnromWriteChr(addr, data) ==
    MapperStep(CnRom_write_chr(mapper, addr, data),
               Last_of("write_chr", addr, data, None), hist)

InitCnrom ==
    /\ PowerOn(ClockSampleRate, << >>)
    /\ \E len \in CnromChrSizes :
           mapper = CnRomMapper_new(Vec_rom(32768), Vec_rom(len), "Vertical")

NextCnrom ==
    \/ \E addr \in CnromWriteAddrs : \E data \in CnromValues : CnromWritePrg(addr, data)
    \/ \E addr \in CnromPrgReadAddrs : CnromReadPrg(addr)
    \/ \E addr \in CnromChrAddrs : CnromReadChr(addr)
    \/ \E addr \in CnromChrAddrs : \E data \in CnromChrValues : CnromWriteChr(addr, data)

SpecCnrom == InitCnrom /\ [][NextCnrom]_vars

\* C17: read_chr(a) returns CHR byte (v & 3) * $2000 + a, v the last value
\* written to $8000-$FFFF (bank 0 before any; the bank wraps on a CHR ROM smaller
\* than 4 banks); PRG reads return the fixed PRG byte; the selected CHR bank is
\* changed by a write to $8000-$FFFF only.
C17_ChrBank ==
    [][ /\ last'.op = "read_chr" =>
               last'.ret = Some(RomByte(((hist.bank % 4) * 8192 + last'.addr)
                                          % mapper.chr_rom.len))
        /\ last'.op = "read_prg" =>
               last'.ret = Some(RomByte(last'.addr - 32768))
        /\ mapper'.chr_bank # mapper.chr_bank =>
               (last'.op = "write_prg" /\ last'.addr >= 32768) ]_vars

---------------------------------------------------------------------------
(* SpecUxrom: UxROM.  The cartridge has 2 or 8 PRG banks of 16 KiB and     *)
(* either 8 KiB of CHR ROM or none (CHR RAM: the loader hands the mapper   *)
(* an empty CHR sequence).  The CPU writes bank values and reads both PRG  *)
(* windows, the PPU writes and reads the pattern tables, in any order.     *)

UxromPrgBankCounts == { 2, 8 }
UxromChrSizes == { 0, 8192 }
UxromWriteAddrs == { 32768, 65535 }
UxromValues == { 0, 1, 7, 241 }
UxromPrgReadAddrs == { 32768, 49151, 49152, 65535 }
UxromChrAddrs == { 0, 8191 }
UxromChrValues == { 0, 85 }

UxromWritePrg(addr, data) ==
    MapperStep(UxRom_write_prg(mapper, addr, data),
               Last_of("write_prg", addr, data, None),
               Hist_bank_write(hist, addr, data))

UxromReadPrg(addr) ==
    MapperStep(mapper, Last_of("read_prg", addr, 0, UxRom_read_prg(mapper, addr)), hist)

UxromReadChr(addr) ==
    MapperStep(mapper, Last_of("read_chr", addr, 0, UxRom_read_chr(mapper, addr)), hist)

UxromWriteChr(addr, data) ==
    MapperStep(UxRom_write_chr(mapper, addr, data),
               Last_of("write_chr", addr, data, None), hist)

InitUxrom ==
    /\ PowerOn(ClockSampleRate, << >>)
    /\ \E n \in UxromPrgBankCounts : \E len \in UxromChrSizes :
           mapper = UxRomMapper_new(Vec_rom(n * 16384), Vec_rom(len), "Vertical")

NextUxrom ==
    \/ \E addr \in UxromWriteAddrs : \E data \in UxromValues : UxromWritePrg(addr, data)
    \/ \E addr \in UxromPrgReadAddrs : UxromReadPrg(addr)
    \/ \E addr \in UxromChrAddrs : UxromReadChr(addr)
    \/ \E addr \in UxromChrAddrs : \E data \in UxromChrValues : UxromWriteChr(addr, data)

SpecUxrom == InitUxrom /\ [][NextUxrom]_vars

\* C18: with v the last value written to $8000-$FFFF (0 before any), a read of
\* $8000+k returns byte k of PRG bank (v & $0F) when the ROM has that bank, and a
\* read of $C000+k byte k of the last bank; with CHR ROM read_chr(a) returns CHR
\* byte a, and without CHR a read_chr that follows a write_chr of the same
\* address returns the value written.
C18_UxromBanks ==
    [][ LET n == mapper.prg_rom.len \div 16384
            a == last'.addr
        IN  /\ (last'.op = "read_prg" /\ a < 49152 /\ hist.bank % 16 < n) =>
                   last'.ret = Some(RomByte((hist.bank % 16) * 16384 + (a - 32768)))
            /\ (last'.op = "read_prg" /\ a >= 49152) =>
                   last'.ret = Some(RomByte((n - 1) * 16384 + (a - 49152)))
            /\ (last'.op = "read_chr" /\ mapper.chr_rom.len > 0) =>
                   last'.ret = Some(RomByte(a))
            /\ (last'.op = "read_chr" /\ mapper.chr_rom.len = 0
                /\ last.op = "write_chr" /\ last.addr = a) =>
                   last'.ret = Some(last.value) ]_vars

---------------------------------------------------------------------------
(* SpecNrom: NROM.  The cartridge has 16 or 32 KiB of PRG ROM and 8 KiB of *)
(* CHR ROM.  The CPU reads both PRG windows and writes anywhere in         *)
(* $6000-$FFFF, the PPU reads and writes the pattern tables, in any order. *)

NromPrgSizes == { 16384, 32768 }
NromOffsets == { 0, 1, 255, 256, 8191, 8192, 16382, 16383 }
NromPrgReadAddrs == { base + k : base \in { 32768, 49152 }, k \in NromOffsets }
NromWriteAddrs == { 24576, 32768, 49152, 65535 }
NromValues == { 0, 1, 128, 255 }
NromChrAddrs == { 0, 4096, 8191 }

\* `hist` after a write_prg or write_chr: writes counts them up to MaxNromWrites
Hist_nrom_write(h) ==
    [ h EXCEPT !.writes = IF h.writes < MaxNromWrites THEN h.writes + 1 ELSE h.writes ]

NromWritePrg(addr, data) ==
    MapperStep(Nrom_write_prg(mapper, addr, data),
               Last_of("write_prg", addr, data, None), Hist_nrom_write(hist))

NromReadPrg(addr) ==
    MapperStep(mapper, Last_of("read_prg", addr, 0, Nrom_read_prg(mapper, addr)), hist)

NromReadChr(addr) ==
    MapperStep(mapper, Last_of("read_chr", addr, 0, Nrom_read_chr(mapper, addr)), hist)

NromWriteChr(addr, data) ==
    MapperStep(Nrom_write_chr(mapper, addr, data),
               Last_of("write_chr", addr, data, None), Hist_nrom_write(hist))

InitNrom ==
    /\ PowerOn(ClockSampleRate, << >>)
    /\ \E len \in NromPrgSizes :
           mapper = NromMapper_new(Vec_rom(len), Vec_rom(8192), "Horizontal")

NextNrom ==
    \/ \E addr \in NromWriteAddrs : \E data \in NromValues : NromWritePrg(addr, data)
    \/ \E addr \in NromPrgReadAddrs : NromReadPrg(addr)
    \/ \E addr \in NromChrAddrs : NromReadChr(addr)
    \/ \E addr \in NromChrAddrs : \E data \in NromValues : NromWriteChr(addr, data)

SpecNrom == InitNrom /\ [][NextNrom]_vars

\* C19: with a 16 KiB PRG ROM a read of $8000+k and a read of $C000+k both return
\* PRG byte k, whatever was written before; write_prg and write_chr change the
\* result of no read: every PRG and CHR read returns the ROM byte it returned at
\* power-on.
C19_NromMirror ==
    [][ /\ (last'.op = "read_prg" /\ mapper.prg_rom.len = 16384) =>
               last'.ret = Some(RomByte((last'.addr - 32768) % 16384))
        /\ (last'.op = "read_prg" /\ mapper.prg_rom.len = 32768) =>
               last'.ret = Some(RomByte(last'.addr - 32768))
        /\ last'.op = "read_chr" => last'.ret = Some(RomByte(last'.addr))
        /\ \A a \in NromPrgReadAddrs :
               Nrom_read_prg(mapper', a) = Nrom_read_prg(mapper, a)
        /\ \A a \in NromChrAddrs :
               Nrom_read_chr(mapper', a) = Nrom_read_chr(mapper, a)
        /\ mapper.prg_rom.len = 16384 =>
               \A k \in NromOffsets :
                   Nrom_read_prg(mapper', 32768 + k) = Nrom_read_prg(mapper', 49152 + k) ]_vars

\* C19 witness: after two writes the read of $FFFF of a 16 KiB cartridge returns
\* PRG byte $3FFF
C19_Witness ==
    /\ last.op = "read_prg"
    /\ last.addr = 65535
    /\ mapper.prg_rom.len = 16384
    /\ last.ret = Some(RomByte(16383))
    /\ hist.writes = MaxNromWrites

---------------------------------------------------------------------------
(* SpecLength: the length counters.  Shortly before the second step of the *)
(* four-step sequence the program sets up one channel (halt flag, length   *)
(* load, in any order); the sequencer then issues its half-frame clock,    *)
(* and the program provokes further half-frame clocks by writing $80 to    *)
(* $4017 on odd and even cycles.  At the end of the run the program loads  *)
(* the channel's length counter with any of the 32 table indices.          *)

LengthChannels == 0 .. 3
HaltWrites == { << 16384, 32 >>, << 16388, 32 >>, << 16392, 128 >>, << 16396, 32 >> }
SetupLoads == { << addr, 8 * n >> : addr \in LengthRegisters, n \in { 3, 5 } }
LengthResetCycles == { 7460, 7461, 7468, 7469 }
LengthIndices == 0 .. 31

\* the channel (0: pulse 1, 1: pulse 2, 2: triangle, 3: noise) of a register
ChannelOf(addr) == (addr - 16384) \div 4

\* the length counter and the halt flag of channel ch of the APU a
LengthOf(a, ch) ==
    IF ch = 0 THEN a.square1.length_counter
    ELSE IF ch = 1 THEN a.square2.length_counter
    ELSE IF ch = 2 THEN a.triangle.length_counter
    ELSE a.noise.length_counter

HaltOf(a, ch) ==
    IF ch = 0 THEN Envelope_halt(a.square1.envelope)
    ELSE IF ch = 1 THEN Envelope_halt(a.square2.envelope)
    ELSE IF ch = 2 THEN a.triangle.linear_control_flag
    ELSE Envelope_halt(a.noise.envelope)

\* the run uses one channel: the channels other than that of addr are as at
\* power-on
OnlyChannel(addr) ==
    \A ch \in LengthChannels \ { ChannelOf(addr) } :
        LengthOf(APU, ch) = 0 /\ ~HaltOf(APU, ch)

InitLength == New(ClockSampleRate, << >>)

NextLength ==
    \/ Clock(MaxLengthCycles)
    \/ \E w \in HaltWrites \cup SetupLoads :
          /\ cpu_cycle = LengthFrom
          /\ hist.writes < MaxSetupWrites
          /\ OnlyChannel(w[1])
          /\ WriteRegister(w[1], w[2])
    \/ /\ cpu_cycle \in LengthResetCycles
       /\ hist.writes17 < MaxLengthResets
       /\ WriteFrameCounter(128)
    \/ \E addr \in LengthRegisters : \E n \in LengthIndices :
          /\ cpu_cycle = MaxLengthCycles
          /\ last.op = "clock"
          /\ OnlyChannel(addr)
          /\ WriteRegister(addr, 8 * n + (n % 8))

SpecLength == InitLength /\ [][NextLength]_vars

\* one half-frame clock of a length counter, as the claim states it
LengthStep(len, halt) == IF len > 0 /\ ~halt THEN len - 1 ELSE len

\* the new APU, from the primed variables
APU_next ==
    [ square1 |-> square1', square2 |-> square2', triangle |-> triangle',
      noise |-> noise' ]

\* C20: a write of a byte with high 5 bits n to $4003, $4007, $400B or $400F sets
\* that channel's length counter to entry n of the length table and leaves the other
\* channels' counters alone; every half-frame clock issued during a clock() call
\* decrements each counter by one iff it is non-zero and its channel's halt flag is
\* clear; no other step changes a length counter, so a counter never underflows
\* and stays at 0 until the next load.
C20_LengthCounter ==
    [][ \A ch \in LengthChannels :
          LET len == LengthOf(APU, ch)
              halt == HaltOf(APU, ch)
              new == LengthOf(APU_next, ch)
              halves == last'.issued.half
          IN  /\ new \in 0 .. 254
              /\ IF last'.op = "write_register" /\ last'.addr \in LengthRegisters
                    /\ ChannelOf(last'.addr) = ch
                 THEN new = LENGTH_TABLE[(last'.value \div 8) + 1]
                 ELSE IF last'.op = "clock" /\ halves = 1
                 THEN new = LengthStep(len, halt)
                 ELSE IF last'.op = "clock" /\ halves = 2
                 THEN new = LengthStep(LengthStep(len, halt), halt)
                 ELSE new = len ]_vars

\* C20 witness: the noise channel was loaded with index 5 (length 4) and the third
\* half-frame clock, provoked by the second $4017 write, has brought it to 1
C20_Witness ==
    /\ last.op = "clock"
    /\ last.issued.half = 1
    /\ hist.writes17 = MaxLengthResets
    /\ noise.length_counter = 1
    /\ ~HaltOf(APU, 3)

---------------------------------------------------------------------------
(* The CPU core (src/src/cpu.rs).  StatusFlags is the byte behind the       *)
(* bitflags; a flag is its mask.                                           *)

CARRY == 1
ZERO == 2
INTERRUPT_DISABLE == 4
DECIMAL_MODE == 8
BREAK_COMMAND == 16
UNUSED == 32
OVERFLOW == 64
NEGATIVE == 128

StatusFlags_empty == 0

StatusFlags_contains(status, flag) == (status \div flag) % 2 = 1

StatusFlags_insert(status, flag) ==
    IF StatusFlags_contains(status, flag) THEN status ELSE status + flag

StatusFlags_remove(status, flag) ==
    IF StatusFlags_contains(status, flag) THEN status - flag ELSE status

\* if cond { status.insert(flag) } else { status.remove(flag) }
StatusFlags_assign(status, flag, cond) ==
    IF cond THEN StatusFlags_insert(status, flag) ELSE StatusFlags_remove(status, flag)

\* StatusFlags::from_bits_truncate: every bit of the byte is a flag
StatusFlags_from_bits_truncate(bits) == bits % 256

\* u8 and u16 arithmetic that wraps
WrapU8(n) == n % 256
WrapU16(n) == n % 65536

(* crate::memory::Memory: 64 KiB of bus-visible bytes, zero after          *)
(* construction, the 2 KiB of on-board RAM mirrored across $0000-$1FFF.    *)
(* `bytes` holds the cells written so far; `written` lists the addresses   *)
(* the CPU has written since the start of the instruction under way        *)
(* (observation only, never read by the CPU).                              *)
Memory_new == [ bytes |-> [ i \in {} |-> 0 ], written |-> << >> ]

Memory_index(addr) == IF addr < 8192 THEN addr % 2048 ELSE addr

Memory_read(memory, addr) ==
    IF Memory_index(addr) \in DOMAIN memory.bytes
    THEN memory.bytes[Memory_index(addr)]
    ELSE 0

Memory_write(memory, addr, data) ==
    [ bytes |-> [ i \in DOMAIN memory.bytes \cup { Memory_index(addr) } |->
                      IF i = Memory_index(addr) THEN data ELSE memory.bytes[i] ],
      written |-> Append(memory.written, addr) ]

\* little-endian word
Memory_read_u16(memory, addr) ==
    Memory_read(memory, addr) + 256 * Memory_read(memory, WrapU16(addr + 1))

Memory_write_u16(memory, addr, data) ==
    Memory_write(Memory_write(memory, addr, data % 256),
                 WrapU16(addr + 1), data \div 256)

RECURSIVE Memory_load(_, _, _)
Memory_load(memory, addr, program) ==
    IF program = << >> THEN memory
    ELSE Memory_load(Memory_write(memory, addr, Head(program)),
                     WrapU16(addr + 1), Tail(program))

Memory_clear(memory) == [ memory EXCEPT !.bytes = Memory_new.bytes ]

\* the cells of m as a function of the address, for comparisons
Memory_same(m1, m2) ==
    \A i \in DOMAIN m1.bytes \cup DOMAIN m2.bytes :
        Memory_read(m1, i) = Memory_read(m2, i)

(* The opcode table of OpcodeMap::new, in the order of the vec!: code,      *)
(* mnemonic, bytes, addressing mode (the cycle count is not used by run).  *)
Opcode_new(code, mnemonic, bytes, addressing_mode) ==
    [ code |-> code, mnemonic |-> mnemonic, bytes |-> bytes,
      addressing_mode |-> addressing_mode ]

CPU_OPCODES ==
    << Opcode_new(105, "ADC", 2, "Immediate"),
       Opcode_new(101, "ADC", 2, "ZeroPage"),
       Opcode_new(117, "ADC", 2, "ZeroPageX"),
       Opcode_new(109, "ADC", 3, "Absolute"),
       Opcode_new(125, "ADC", 3, "AbsoluteX"),
       Opcode_new(121, "ADC", 3, "AbsoluteY"),
       Opcode_new(97, "ADC", 2, "IndirectX"),
       Opcode_new(113, "ADC", 2, "IndirectY"),
       Opcode_new(41, "AND", 2, "Immediate"),
       Opcode_new(37, "AND", 2, "ZeroPage"),
       Opcode_new(53, "AND", 2, "ZeroPageX"),
       Opcode_new(45, "AND", 3, "Absolute"),
       Opcode_new(61, "AND", 3, "AbsoluteX"),
       Opcode_new(57, "AND", 3, "AbsoluteY"),
       Opcode_new(33, "AND", 2, "IndirectX"),
       Opcode_new(49, "AND", 2, "IndirectY"),
       Opcode_new(10, "ASL", 1, "Accumulator"),
       Opcode_new(6, "ASL", 2, "ZeroPage"),
       Opcode_new(22, "ASL", 2, "ZeroPageX"),
       Opcode_new(14, "ASL", 3, "Absolute"),
       Opcode_new(30, "ASL", 3, "AbsoluteX"),
       Opcode_new(144, "BCC", 2, "Relative"),
       Opcode_new(176, "BCS", 2, "Relative"),
       Opcode_new(240, "BEQ", 2, "Relative"),
       Opcode_new(36, "BIT", 2, "ZeroPage"),
       Opcode_new(44, "BIT", 3, "Absolute"),
       Opcode_new(48, "BMI", 2, "Relative"),
       Opcode_new(208, "BNE", 2, "Relative"),
       Opcode_new(16, "BPL", 2, "Relative"),
       Opcode_new(0, "BRK", 1, "None"),
       Opcode_new(80, "BVC", 2, "Relative"),
       Opcode_new(112, "BVS", 2, "Relative"),
       Opcode_new(24, "CLC", 1, "None"),
       Opcode_new(216, "CLD", 1, "None"),
       Opcode_new(88, "CLI", 1, "None"),
       Opcode_new(184, "CLV", 1, "None"),
       Opcode_new(201, "CMP", 2, "Immediate"),
       Opcode_new(197, "CMP", 2, "ZeroPage"),
       Opcode_new(213, "CMP", 2, "ZeroPageX"),
       Opcode_new(205, "CMP", 3, "Absolute"),
       Opcode_new(221, "CMP", 3, "AbsoluteX"),
       Opcode_new(217, "CMP", 3, "AbsoluteY"),
       Opcode_new(193, "CMP", 2, "IndirectX"),
       Opcode_new(209, "CMP", 2, "IndirectY"),
       Opcode_new(224, "CPX", 2, "Immediate"),
       Opcode_new(228, "CPX", 2, "ZeroPage"),
       Opcode_new(236, "CPX", 3, "Absolute"),
       Opcode_new(192, "CPY", 2, "Immediate"),
       Opcode_new(196, "CPY", 2, "ZeroPage"),
       Opcode_new(204, "CPY", 3, "Absolute"),
       Opcode_new(198, "DEC", 2, "ZeroPage"),
       Opcode_new(214, "DEC", 2, "ZeroPageX"),
       Opcode_new(206, "DEC", 3, "Absolute"),
       Opcode_new(222, "DEC", 3, "AbsoluteX"),
       Opcode_new(202, "DEX", 1, "None"),
       Opcode_new(136, "DEY", 1, "None"),
       Opcode_new(73, "EOR", 2, "Immediate"),
       Opcode_new(69, "EOR", 2, "ZeroPage"),
       Opcode_new(85, "EOR", 2, "ZeroPageX"),
       Opcode_new(77, "EOR", 3, "Absolute"),
       Opcode_new(93, "EOR", 3, "AbsoluteX"),
       Opcode_new(89, "EOR", 3, "AbsoluteY"),
       Opcode_new(65, "EOR", 2, "IndirectX"),
       Opcode_new(81, "EOR", 2, "IndirectY"),
       Opcode_new(230, "INC", 2, "ZeroPage"),
       Opcode_new(246, "INC", 2, "ZeroPageX"),
       Opcode_new(238, "INC", 3, "Absolute"),
       Opcode_new(254, "INC", 3, "AbsoluteX"),
       Opcode_new(232, "INX", 1, "None"),
       Opcode_new(200, "INY", 1, "None"),
       Opcode_new(76, "JMP", 3, "Absolute"),
       Opcode_new(108, "JMP", 3, "Indirect"),
       Opcode_new(32, "JSR", 3, "Absolute"),
       Opcode_new(169, "LDA", 2, "Immediate"),
       Opcode_new(165, "LDA", 2, "ZeroPage"),
       Opcode_new(181, "LDA", 2, "ZeroPageX"),
       Opcode_new(173, "LDA", 3, "Absolute"),
       Opcode_new(189, "LDA", 3, "AbsoluteX"),
       Opcode_new(185, "LDA", 3, "AbsoluteY"),
       Opcode_new(161, "LDA", 2, "IndirectX"),
       Opcode_new(177, "LDA", 2, "IndirectY"),
       Opcode_new(162, "LDX", 2, "Immediate"),
       Opcode_new(166, "LDX", 2, "ZeroPage"),
       Opcode_new(182, "LDX", 2, "ZeroPageY"),
       Opcode_new(174, "LDX", 3, "Absolute"),
       Opcode_new(190, "LDX", 3, "AbsoluteY"),
       Opcode_new(160, "LDY", 2, "Immediate"),
       Opcode_new(164, "LDY", 2, "ZeroPage"),
       Opcode_new(180, "LDY", 2, "ZeroPageX"),
       Opcode_new(172, "LDY", 3, "Absolute"),
       Opcode_new(188, "LDY", 3, "AbsoluteX"),
       Opcode_new(74, "LSR", 1, "Accumulator"),
       Opcode_new(70, "LSR", 2, "ZeroPage"),
       Opcode_new(86, "LSR", 2, "ZeroPageX"),
       Opcode_new(78, "LSR", 3, "Absolute"),
       Opcode_new(94, "LSR", 3, "AbsoluteX"),
       Opcode_new(234, "NOP", 1, "None"),
       Opcode_new(9, "ORA", 2, "Immediate"),
       Opcode_new(5, "ORA", 2, "ZeroPage"),
       Opcode_new(21, "ORA", 2, "ZeroPageX"),
       Opcode_new(13, "ORA", 3, "Absolute"),
       Opcode_new(29, "ORA", 3, "AbsoluteX"),
       Opcode_new(25, "ORA", 3, "AbsoluteY"),
       Opcode_new(1, "ORA", 2, "IndirectX"),
       Opcode_new(17, "ORA", 2, "IndirectY"),
       Opcode_new(72, "PHA", 1, "None"),
       Opcode_new(8, "PHP", 1, "None"),
       Opcode_new(104, "PLA", 1, "None"),
       Opcode_new(40, "PLP", 1, "None"),
       Opcode_new(42, "ROL", 1, "Accumulator"),
       Opcode_new(38, "ROL", 2, "ZeroPage"),
       Opcode_new(54, "ROL", 2, "ZeroPageX"),
       Opcode_new(46, "ROL", 3, "Absolute"),
       Opcode_new(62, "ROL", 3, "AbsoluteX"),
       Opcode_new(106, "ROR", 1, "Accumulator"),
       Opcode_new(102, "ROR", 2, "ZeroPage"),
       Opcode_new(118, "ROR", 2, "ZeroPageX"),
       Opcode_new(110, "ROR", 3, "Absolute"),
       Opcode_new(126, "ROR", 3, "AbsoluteX"),
       Opcode_new(64, "RTI", 1, "None"),
       Opcode_new(96, "RTS", 1, "None"),
       Opcode_new(233, "SBC", 2, "Immediate"),
       Opcode_new(229, "SBC", 2, "ZeroPage"),
       Opcode_new(245, "SBC", 2, "ZeroPageX"),
       Opcode_new(237, "SBC", 3, "Absolute"),
       Opcode_new(253, "SBC", 3, "AbsoluteX"),
       Opcode_new(249, "SBC", 3, "AbsoluteY"),
       Opcode_new(225, "SBC", 2, "IndirectX"),
       Opcode_new(241, "SBC", 2, "IndirectY"),
       Opcode_new(56, "SEC", 1, "None"),
       Opcode_new(248, "SED", 1, "None"),
       Opcode_new(120, "SEI", 1, "None"),
       Opcode_new(133, "STA", 2, "ZeroPage"),
       Opcode_new(149, "STA", 2, "ZeroPageX"),
       Opcode_new(141, "STA", 3, "Absolute"),
       Opcode_new(157, "STA", 3, "AbsoluteX"),
       Opcode_new(153, "STA", 3, "AbsoluteY"),
       Opcode_new(129, "STA", 2, "IndirectX"),
       Opcode_new(145, "STA", 2, "IndirectY"),
       Opcode_new(134, "STX", 2, "ZeroPage"),
       Opcode_new(150, "STX", 2, "ZeroPageY"),
       Opcode_new(142, "STX", 3, "Absolute"),
       Opcode_new(132, "STY", 2, "ZeroPage"),
       Opcode_new(148, "STY", 2, "ZeroPageX"),
       Opcode_new(140, "STY", 3, "Absolute"),
       Opcode_new(170, "TAX", 1, "None"),
       Opcode_new(168, "TAY", 1, "None"),
       Opcode_new(186, "TSX", 1, "None"),
       Opcode_new(138, "TXA", 1, "None"),
       Opcode_new(154, "TXS", 1, "None"),
       Opcode_new(152, "TYA", 1, "None") >>

\* the codes of the table whose instructions are not among the arms of
\* CPU_execute below: the programs run here do not fetch them
OtherCodes ==
    { 101, 117, 109, 125, 121, 97, 113, 41, 37, 53, 45, 61, 57, 33, 49, 10,
      6, 22, 14, 30, 144, 176, 240, 36, 44, 48, 16, 80, 112, 216, 88, 184,
      201, 197, 213, 205, 221, 217, 193, 209, 228, 236, 192, 196, 204, 198,
      214, 206, 222, 202, 136, 73, 69, 85, 77, 93, 89, 65, 81, 230, 246, 238,
      254, 200, 165, 181, 173, 185, 161, 177, 166, 182, 174, 190, 160, 164,
      180, 172, 188, 74, 70, 86, 78, 94, 9, 5, 21, 13, 29, 25, 1, 17, 38, 54,
      46, 62, 102, 118, 110, 126, 233, 229, 245, 237, 253, 249, 225, 241,
      248, 120, 133, 149, 141, 153, 129, 145, 134, 150, 142, 132, 148, 140,
      170, 168, 186, 138, 154, 152 }

\* OpcodeMap::find_by_code
\* find_by_code that knows the first half of the table only
find_by_code_first_half(code) ==
    LET hits == { i \in 1 .. 75 : CPU_OPCODES[i].code = code }
    IN  IF hits # {}
        THEN Some(CPU_OPCODES[CHOOSE i \in hits : \A j \in hits : i <= j])
        ELSE None

\* OpcodeMap::find_by_code: the first entry of the table with that code
find_by_code(code) ==
    LET hits == { i \in 1 .. Len(CPU_OPCODES) : CPU_OPCODES[i].code = code }
    IN  IF hits # {}
        THEN Some(CPU_OPCODES[CHOOSE i \in hits : \A j \in hits : i <= j])
        ELSE None

(* struct CPU { registers, memory }, and `at`: where the caller stands,    *)
(* "idle" before run(), "run" at the top of its loop, "returned" after it. *)
CPU_new ==
    [ registers |-> [ a |-> 0, x |-> 0, y |-> 0, status |-> StatusFlags_empty,
                      pc |-> 32768, sp |-> 0 ],
      memory |-> Memory_new,
      at |-> "idle" ]

update_zero_and_negative_flags(c, value) ==
    [ c EXCEPT !.registers.status =
          StatusFlags_assign(StatusFlags_assign(c.registers.status, ZERO, value = 0),
                             NEGATIVE, Bit(value, 7) = 1) ]

\* a signed byte (as i8) added to a u16, as `wrapping_add(offset as u16)` does
SignExtend(offset) == IF offset >= 128 THEN offset + 65280 ELSE offset

\* the address an instruction works on; pc is at the byte after the opcode
get_operand_address(c, mode) ==
    CASE mode = "Immediate" -> c.registers.pc
      [] mode = "Absolute" -> Memory_read_u16(c.memory, c.registers.pc)
      [] mode = "AbsoluteX" ->
             WrapU16(Memory_read_u16(c.memory, c.registers.pc) + c.registers.x)
      [] mode = "Relative" ->
             WrapU16(WrapU16(c.registers.pc + 1)
                     + SignExtend(Memory_read(c.memory, c.registers.pc)))
      [] mode = "Indirect" ->
             LET ptr == Memory_read_u16(c.memory, c.registers.pc)
                 lo == Memory_read(c.memory, ptr)
                 hi == Memory_read(c.memory, WrapU16(ptr + 1))
             IN  hi * 256 + lo

\* ADC without the carry in
CPU_adc_without_carry(c, mode) ==
    LET value == Memory_read(c.memory, get_operand_address(c, mode))
        sum == c.registers.a + value
        result == sum % 256
        s1 == StatusFlags_assign(c.registers.status, CARRY, sum > 255)
        s2 == StatusFlags_assign(s1, OVERFLOW,
                  Bit(c.registers.a, 7) # Bit(result, 7) /\ Bit(value, 7) # Bit(result, 7))
    IN  update_zero_and_negative_flags(
            [ c EXCEPT !.registers.status = s2, !.registers.a = result ], result)

CPU_adc(c, mode) ==
    LET value == Memory_read(c.memory, get_operand_address(c, mode))
        carry == IF StatusFlags_contains(c.registers.status, CARRY) THEN 1 ELSE 0
        sum == c.registers.a + value + carry
        result == sum % 256
        s1 == StatusFlags_assign(c.registers.status, CARRY, sum > 255)
        \* ((a ^ result) & (value ^ result) & 0x80) != 0
        s2 == StatusFlags_assign(s1, OVERFLOW,
                  Bit(c.registers.a, 7) # Bit(result, 7) /\ Bit(value, 7) # Bit(result, 7))
    IN  update_zero_and_negative_flags(
            [ c EXCEPT !.registers.status = s2, !.registers.a = result ], result)

CPU_bne(c, mode) ==
    IF ~StatusFlags_contains(c.registers.status, ZERO)
    THEN [ c EXCEPT !.registers.pc = get_operand_address(c, mode) ]
    ELSE c

\* "TODO: BRK implementation"
CPU_brk(c) ==
    [ c EXCEPT !.registers.status = StatusFlags_insert(c.registers.status, BREAK_COMMAND) ]

CPU_clc(c) ==
    [ c EXCEPT !.registers.status = StatusFlags_remove(c.registers.status, CARRY) ]

CPU_sec(c) ==
    [ c EXCEPT !.registers.status = StatusFlags_insert(c.registers.status, CARRY) ]

CPU_cpx(c, mode) ==
    LET value == Memory_read(c.memory, get_operand_address(c, mode))
        result == WrapU8(c.registers.x + 256 - value)
    IN  update_zero_and_negative_flags(
            [ c EXCEPT !.registers.status =
                  StatusFlags_assign(c.registers.status, CARRY, c.registers.x >= value) ],
            result)

CPU_inx(c) ==
    update_zero_and_negative_flags(
        [ c EXCEPT !.registers.x = WrapU8(c.registers.x + 1) ],
        WrapU8(c.registers.x + 1))

CPU_jmp(c, mode) == [ c EXCEPT !.registers.pc = get_operand_address(c, mode) ]

CPU_jsr(c, mode) ==
    LET addr == get_operand_address(c, mode)
        return_addr == WrapU16(c.registers.pc + 65535)
    IN  [ c EXCEPT !.memory = Memory_write_u16(c.memory, c.registers.sp + 256 - 2,
                                               return_addr),
                   !.registers.sp = WrapU8(c.registers.sp + 254),
                   !.registers.pc = addr ]

CPU_lda(c, mode) ==
    LET value == Memory_read(c.memory, get_operand_address(c, mode))
    IN  update_zero_and_negative_flags([ c EXCEPT !.registers.a = value ], value)

CPU_ldx(c, mode) ==
    LET value == Memory_read(c.memory, get_operand_address(c, mode))
    IN  update_zero_and_negative_flags([ c EXCEPT !.registers.x = value ], value)

CPU_nop(c) == c

CPU_pha(c) ==
    [ c EXCEPT !.memory = Memory_write(c.memory, c.registers.sp + 256, c.registers.a),
               !.registers.sp = WrapU8(c.registers.sp + 255) ]

CPU_php(c) ==
    [ c EXCEPT !.memory = Memory_write(c.memory, c.registers.sp + 256,
                                       c.registers.status),
               !.registers.sp = WrapU8(c.registers.sp + 255) ]

\* PLA that reads before it increments S
CPU_pla_before_increment(c) ==
    LET value == Memory_read(c.memory, c.registers.sp + 256)
    IN  update_zero_and_negative_flags(
            [ c EXCEPT !.registers.sp = WrapU8(c.registers.sp + 1),
                       !.registers.a = value ], value)

CPU_pla(c) ==
    LET sp == WrapU8(c.registers.sp + 1)
        value == Memory_read(c.memory, sp + 256)
    IN  update_zero_and_negative_flags(
            [ c EXCEPT !.registers.sp = sp, !.registers.a = value ], value)

CPU_plp(c) ==
    LET sp == WrapU8(c.registers.sp + 1)
    IN  [ c EXCEPT !.registers.sp = sp,
                   !.registers.status =
                       StatusFlags_from_bits_truncate(Memory_read(c.memory, sp + 256)) ]

\* the Accumulator arm of rol
CPU_rol(c, mode) ==
    LET value == c.registers.a
        carry_in == IF StatusFlags_contains(c.registers.status, CARRY) THEN 1 ELSE 0
        s1 == StatusFlags_assign(c.registers.status, CARRY, Bit(value, 7) = 1)
        result == WrapU8(value * 2) + carry_in
    IN  update_zero_and_negative_flags(
            [ c EXCEPT !.registers.status = s1, !.registers.a = result ], result)

\* ROR that leaves bit 7 clear, as LSR does
CPU_ror_without_carry(c, mode) ==
    LET value == c.registers.a
        s1 == StatusFlags_assign(c.registers.status, CARRY, Bit(value, 0) = 1)
        result == value \div 2
    IN  update_zero_and_negative_flags(
            [ c EXCEPT !.registers.status = s1, !.registers.a = result ], result)

\* the Accumulator arm of ror
CPU_ror(c, mode) ==
    LET value == c.registers.a
        carry_in == IF StatusFlags_contains(c.registers.status, CARRY) THEN 128 ELSE 0
        s1 == StatusFlags_assign(c.registers.status, CARRY, Bit(value, 0) = 1)
        result == (value \div 2) + carry_in
    IN  update_zero_and_negative_flags(
            [ c EXCEPT !.registers.status = s1, !.registers.a = result ], result)

CPU_rti(c) ==
    LET p == CPU_pla(CPU_plp(c))
    IN  [ p EXCEPT !.registers.pc = p.registers.a ]

CPU_rts(c) ==
    LET sp1 == WrapU8(c.registers.sp + 1)
        lo == Memory_read(c.memory, sp1 + 256)
        sp2 == WrapU8(sp1 + 1)
        hi == Memory_read(c.memory, sp2 + 256)
    IN  [ c EXCEPT !.registers.sp = sp2,
                   !.registers.pc = WrapU16(hi * 256 + lo + 1) ]

CPU_sta(c, mode) ==
    [ c EXCEPT !.memory = Memory_write(c.memory, get_operand_address(c, mode),
                                       c.registers.a) ]

\* the match on the mnemonic in run
CPU_execute(c, opcode_info) ==
    LET m == opcode_info.mnemonic
        mode == opcode_info.addressing_mode
    IN  CASE m = "ADC" -> CPU_adc(c, mode)
          [] m = "BNE" -> CPU_bne(c, mode)
          [] m = "CLC" -> CPU_clc(c)
          [] m = "CPX" -> CPU_cpx(c, mode)
          [] m = "INX" -> CPU_inx(c)
          [] m = "JMP" -> CPU_jmp(c, mode)
          [] m = "JSR" -> CPU_jsr(c, mode)
          [] m = "LDA" -> CPU_lda(c, mode)
          [] m = "LDX" -> CPU_ldx(c, mode)
          [] m = "NOP" -> CPU_nop(c)
          [] m = "PHA" -> CPU_pha(c)
          [] m = "PHP" -> CPU_php(c)
          [] m = "PLA" -> CPU_pla(c)
          [] m = "PLP" -> CPU_plp(c)
          [] m = "ROL" -> CPU_rol(c, mode)
          [] m = "ROR" -> CPU_ror(c, mode)
          [] m = "RTI" -> CPU_rti(c)
          [] m = "RTS" -> CPU_rts(c)
          [] m = "SEC" -> CPU_sec(c)
          [] m = "STA" -> CPU_sta(c, mode)

\* a turn of the loop that goes on after a code that is no opcode
CPU_run_step_past_unknown(c) ==
    LET opcode == Memory_read(c.memory, c.registers.pc)
        f == [ c EXCEPT !.registers.pc = WrapU16(c.registers.pc + 1) ]
        found == find_by_code(opcode)
    IN  IF IsSome(found)
        THEN LET opcode_info == Unwrap(found)
             IN  IF opcode_info.mnemonic = "BRK"
                 THEN [ CPU_brk(f) EXCEPT !.at = "returned" ]
                 ELSE LET e == CPU_execute(f, opcode_info)
                      IN  [ e EXCEPT !.registers.pc =
                                WrapU16(e.registers.pc + (opcode_info.bytes - 1)) ]
        ELSE f

\* one turn of the loop of run: fetch, pc += 1, execute, pc += bytes - 1; BRK
\* returns from run, a code that is no opcode breaks out of the loop
CPU_run_step(c) ==
    LET opcode == Memory_read(c.memory, c.registers.pc)
        f == [ c EXCEPT !.registers.pc = WrapU16(c.registers.pc + 1) ]
        found == find_by_code(opcode)
    IN  IF IsSome(found)
        THEN LET opcode_info == Unwrap(found)
             IN  IF opcode_info.mnemonic = "BRK"
                 THEN [ CPU_brk(f) EXCEPT !.at = "returned" ]
                 ELSE LET e == CPU_execute(f, opcode_info)
                      IN  [ e EXCEPT !.registers.pc =
                                WrapU16(e.registers.pc + (opcode_info.bytes - 1)) ]
        ELSE [ f EXCEPT !.at = "returned" ]

CPU_reset(c, clear_mem) ==
    LET m == IF clear_mem THEN Memory_clear(c.memory) ELSE c.memory
    IN  [ c EXCEPT !.registers.a = 0, !.registers.x = 0, !.registers.y = 0,
                   !.registers.status = StatusFlags_empty,
                   !.memory = m,
                   !.registers.pc = Memory_read_u16(m, 65532) ]

\* load(program, load_addr): load_addr.unwrap_or(0x8000)
CPU_load(c, program, load_addr) ==
    LET addr == IF IsSome(load_addr) THEN Unwrap(load_addr) ELSE 32768
    IN  [ c EXCEPT !.memory =
              Memory_write_u16(Memory_load(c.memory, addr, program), 65532, addr) ]

\* load_and_run up to the call of run
CPU_load_and_reset(c, program, load_addr) ==
    CPU_reset(CPU_load(c, program, load_addr), FALSE)

---------------------------------------------------------------------------
(* The CPU at work: a caller pokes the registers, loads a program, calls   *)
(* run, and run goes round its loop.                                       *)

MaxCpuSteps == 24

\* a step of the CPU: its state, the call observed and the history after it
CpuStep(c, l, h) ==
    /\ cpu' = c
    /\ last' = l
    /\ hist' = h
    /\ UNCHANGED << apu_vars, threads, mapper, pulse >>

\* the state before any call: the APU at power-on, no cartridge, the CPU as c
CpuOn(c) ==
    /\ ApuPowerOn(ClockSampleRate, << >>)
    /\ mapper = None
    /\ cpu = c

\* registers set by the caller through the public field, as the tests do
CPU_poke(c, a, x, y, status, sp) ==
    [ c EXCEPT !.registers.a = a, !.registers.x = x, !.registers.y = y,
               !.registers.status = status, !.registers.sp = sp ]

\* the instruction about to be fetched
CPU_fetched(c) == Memory_read(c.memory, c.registers.pc)

\* the call of run()
Run ==
    /\ cpu.at = "idle"
    /\ CpuStep([ cpu EXCEPT !.at = "run", !.memory.written = << >> ],
               Last_of("run", cpu.registers.pc, 0, None),
               [ hist EXCEPT !.start = Some(cpu) ])

\* one turn of the loop of run
Step ==
    /\ cpu.at = "run"
    /\ Len(hist.fetches) < MaxCpuSteps
    /\ CPU_fetched(cpu) \notin OtherCodes
    /\ CpuStep(CPU_run_step([ cpu EXCEPT !.memory.written = << >> ]),
               Last_of(IF IsSome(find_by_code(CPU_fetched(cpu)))
                       THEN Unwrap(find_by_code(CPU_fetched(cpu))).mnemonic
                       ELSE "unknown",
                       cpu.registers.pc, CPU_fetched(cpu), None),
               [ hist EXCEPT !.prev = Some(cpu),
                             !.fetches = Append(@, cpu.registers.pc) ])

\* the call of reset(clear_mem) by a caller that is not inside run
Reset(clear_mem) ==
    /\ cpu.at = "idle"
    /\ hist.start = None
    /\ last.op # "reset"
    /\ CpuStep(CPU_reset([ cpu EXCEPT !.memory.written = << >> ], clear_mem),
               Last_of("reset", 0, IF clear_mem THEN 1 ELSE 0, None),
               [ hist EXCEPT !.prev = Some(cpu) ])

---------------------------------------------------------------------------
(* ADC.  A and P are set by the caller, the program is ADC #b, BRK.        *)

AdcValues == { 0, 1, 2, 63, 64, 127, 128, 129, 191, 192, 254, 255 }

AdcFlags == { 0, CARRY, DECIMAL_MODE, CARRY + DECIMAL_MODE }

InitAdc ==
    \E a \in AdcValues : \E b \in AdcValues : \E status \in AdcFlags :
        CpuOn(CPU_load(CPU_poke(CPU_new, a, 0, 0, status, 0), << 105, b, 0 >>, None))

NextAdc ==
    \/ Run
    \/ Step

SpecAdc == InitAdc /\ [][NextAdc]_vars

\* C21: after ADC with A = a, operand b and C = c, A = (a+b+c) & $FF, C = 1 iff
\* a+b+c > 255, V = 1 iff a and b have the same sign bit and the sign bit of the
\* result differs from a's, Z = 1 iff the result is 0, N = bit 7 of the result,
\* whatever the D flag is.
C21_Adc ==
    Len(hist.fetches) = 1 =>
        LET s == Unwrap(hist.start).registers
            b == Memory_read(cpu.memory, 32769)
            c == IF StatusFlags_contains(s.status, CARRY) THEN 1 ELSE 0
            r == (s.a + b + c) % 256
            P == cpu.registers.status
        IN  /\ last.op = "ADC"
            /\ cpu.registers.a = r
            /\ StatusFlags_contains(P, CARRY) <=> (s.a + b + c > 255)
            /\ StatusFlags_contains(P, OVERFLOW) <=>
                   (Bit(s.a, 7) = Bit(b, 7) /\ Bit(r, 7) # Bit(s.a, 7))
            /\ StatusFlags_contains(P, ZERO) <=> (r = 0)
            /\ StatusFlags_contains(P, NEGATIVE) <=> (Bit(r, 7) = 1)
            /\ StatusFlags_contains(P, DECIMAL_MODE) <=>
                   StatusFlags_contains(s.status, DECIMAL_MODE)

\* C21 witness: $FF + $02 with C = 0 and D = 1 has left A = $01, C = 1, V = 0
C21_Witness ==
    /\ Len(hist.fetches) = 1
    /\ last.op = "ADC"
    /\ Unwrap(hist.start).registers.a = 255
    /\ Unwrap(hist.start).registers.status = DECIMAL_MODE
    /\ Memory_read(cpu.memory, 32769) = 2
    /\ cpu.registers.a = 1
    /\ StatusFlags_contains(cpu.registers.status, CARRY)
    /\ ~StatusFlags_contains(cpu.registers.status, OVERFLOW)

---------------------------------------------------------------------------
(* ROL and ROR on the accumulator.  A and C are set by the caller, the     *)
(* program is ROL A, ROR A, BRK or ROR A, ROL A, BRK.                      *)

RotatePrograms == { << 42, 106, 0 >>, << 106, 42, 0 >> }

InitRotate ==
    \E a \in 0 .. 255 : \E status \in { 0, CARRY } : \E program \in RotatePrograms :
        CpuOn(CPU_load(CPU_poke(CPU_new, a, 0, 0, status, 0), program, None))

NextRotate ==
    \/ Run
    \/ Step

SpecRotate == InitRotate /\ [][NextRotate]_vars

\* the carry of a status byte as a number
CarryOf(status) == IF StatusFlags_contains(status, CARRY) THEN 1 ELSE 0

\* C22: ROL takes (A, C) to ((2A mod 256) + C, bit 7 of A) and ROR takes it to
\* ((A div 2) + 128 C, bit 0 of A); each output comes from one input only (the
\* input is read back from the output), and ROL then ROR, and ROR then ROL,
\* restore both A and C.
C22_Rotate ==
    /\ Len(hist.fetches) = 1 =>
           LET s == Unwrap(hist.start).registers
               a == cpu.registers.a
               c == CarryOf(cpu.registers.status)
           IN  IF last.op = "ROL"
               THEN /\ c = Bit(s.a, 7)
                    /\ a = ((2 * s.a) % 256) + CarryOf(s.status)
                    /\ a % 2 = CarryOf(s.status)
                    /\ s.a = (a \div 2) + 128 * c
               ELSE /\ last.op = "ROR"
                    /\ c = Bit(s.a, 0)
                    /\ a = (s.a \div 2) + 128 * CarryOf(s.status)
                    /\ Bit(a, 7) = CarryOf(s.status)
                    /\ s.a = ((2 * a) % 256) + c
    /\ Len(hist.fetches) = 2 =>
           /\ cpu.registers.a = Unwrap(hist.start).registers.a
           /\ CarryOf(cpu.registers.status) = CarryOf(Unwrap(hist.start).registers.status)
           /\ last.op \in { "ROL", "ROR" }
           /\ last.op # Unwrap(find_by_code(Memory_read(cpu.memory, 32768))).mnemonic

\* C22 witness: ROR then ROL has restored A = $81 and C = 0 (in between A = $40,
\* C = 1)
C22_Witness ==
    /\ Len(hist.fetches) = 2
    /\ last.op = "ROL"
    /\ Unwrap(hist.prev).registers.a = 64
    /\ CarryOf(Unwrap(hist.prev).registers.status) = 1
    /\ cpu.registers.a = 129
    /\ CarryOf(cpu.registers.status) = 0

---------------------------------------------------------------------------
(* The stack instructions.  The registers are set by the caller, the       *)
(* program is PHA, PLA, BRK or PHP, PLP, BRK.                              *)

StackPrograms == { << 72, 104, 0 >>, << 8, 40, 0 >> }

StackA == { 0, 128, 255 }

\* X and Y
StackXY == { << 0, 0 >>, << 17, 238 >> }

StackFlags == { 0, 101, 255 }

InitStack ==
    \E sp \in 0 .. 255 : \E a \in StackA : \E xy \in StackXY :
        \E status \in StackFlags : \E program \in StackPrograms :
            CpuOn(CPU_load(CPU_poke(CPU_new, a, xy[1], xy[2], status, sp),
                           program, None))

NextStack ==
    \/ Run
    \/ Step

SpecStack == InitStack /\ [][NextStack]_vars

\* a status byte without its B and U bits
WithoutBU(status) ==
    StatusFlags_remove(StatusFlags_remove(status, BREAK_COMMAND), UNUSED)

\* C23: for every S, PHA then PLA leaves A as it was before the PHA and X and Y
\* unaltered, PHP then PLP leaves P as it was before the PHP but for B and U, and
\* either pair leaves S as it was before the push.
C23_StackRoundTrip ==
    Len(hist.fetches) = 2 =>
        LET s == Unwrap(hist.start).registers
        IN  /\ cpu.registers.sp = s.sp
            /\ cpu.registers.x = s.x
            /\ cpu.registers.y = s.y
            /\ Unwrap(hist.prev).registers.sp = (s.sp + 255) % 256
            /\ IF last.op = "PLA"
               THEN cpu.registers.a = s.a
               ELSE /\ last.op = "PLP"
                    /\ WithoutBU(cpu.registers.status) = WithoutBU(s.status)
                    /\ cpu.registers.a = s.a

\* C23 witness: PHA at S = $00 has pushed $80 and left S = $FF, PLA has pulled it
\* and left S = $00
C23_Witness ==
    /\ Len(hist.fetches) = 2
    /\ last.op = "PLA"
    /\ Unwrap(hist.start).registers.sp = 0
    /\ Unwrap(hist.prev).registers.sp = 255
    /\ cpu.registers.sp = 0
    /\ cpu.registers.a = 128
    /\ cpu.registers.x = 17

\* the bytes the instruction executed last has left at the addresses it wrote
WrittenBytes ==
    [ i \in 1 .. Len(cpu.memory.written) |->
          Memory_read(cpu.memory, cpu.memory.written[i]) ]

\* C24: whenever the status register is pushed (by PHP or by BRK) the byte
\* written to the stack has bit 5 (U) set, whatever P is, P = 0 included.
C24_PushedStatusHasU ==
    /\ last.op = "PHP" =>
           /\ Len(WrittenBytes) = 1
           /\ Bit(WrittenBytes[1], 5) = 1
    /\ last.op = "BRK" =>
           /\ Len(WrittenBytes) = 3
           /\ Bit(WrittenBytes[3], 5) = 1

---------------------------------------------------------------------------
(* JMP.  The caller writes a vector into memory (its low byte at the       *)
(* pointer, one candidate high byte after it and one at the start of the   *)
(* pointer's page) and loads JMP (pointer) or JMP target, then calls run.  *)

JumpPointers == { 640, 767, 1279, 1535 }
JumpLows == { 0, 52, 255 }
JumpPageHighs == { 18, 144 }
JumpNextHighs == { 18, 86 }
JumpTargets == { 4660, 36864 }

\* the start of the page of addr
PageOf(addr) == addr - (addr % 256)

InitJump ==
    \/ \E ptr \in JumpPointers : \E lo \in JumpLows :
           \E hp \in JumpPageHighs : \E hn \in JumpNextHighs :
               LET c == CPU_load(CPU_new, << 108, ptr % 256, ptr \div 256 >>, None)
                   m1 == Memory_write(c.memory, PageOf(ptr), hp)
                   m2 == Memory_write(m1, ptr + 1, hn)
                   m3 == Memory_write(m2, ptr, lo)
               IN  CpuOn([ c EXCEPT !.memory = m3 ])
    \/ \E target \in JumpTargets :
           CpuOn(CPU_load(CPU_new, << 76, target % 256, target \div 256 >>, None))

NextJump ==
    \/ Run
    \/ Step

SpecJump == InitJump /\ [][NextJump]_vars

\* the target of the JMP at $8000, by the rule of the 6502: the operand word, or
\* for JMP (ptr) the word at ptr whose high byte comes from the same page
JumpTarget(memory) ==
    LET operand == Memory_read_u16(memory, 32769)
    IN  IF Memory_read(memory, 32768) = 76
        THEN operand
        ELSE Memory_read(memory, operand)
             + 256 * Memory_read(memory, PageOf(operand) + ((operand + 1) % 256))

\* C25: after JMP, absolute or indirect, the next opcode is fetched at the
\* target; the target of JMP (ptr) has its high byte read from the start of the
\* page of ptr when ptr ends in $FF ($1234 for 6C FF 02 with $02FF = $34 and
\* $0200 = $12).
C25_Jump ==
    Len(hist.fetches) >= 2 => hist.fetches[2] = JumpTarget(cpu.memory)

---------------------------------------------------------------------------
(* The copy loop: LDX #0; LDA $8000,X; STA $0200,X; INX; CPX #4; BNE -9;   *)
(* BRK, handed to load_and_run by a caller that has used S and $0200-$0203 *)
(* before.                                                                 *)

CopyProgram == << 162, 0, 189, 0, 128, 157, 0, 2, 232, 224, 4, 208, 247, 0 >>

CopyStacks == { 0, 253, 255 }

\* what $0200-$0203 hold before the run
CopyFills == { 0, 85, 255 }

InitCopy ==
    \E sp \in CopyStacks : \E fill \in CopyFills :
        LET c == CPU_poke(CPU_new, 0, 0, 0, 0, sp)
            m == Memory_load(c.memory, 512, << fill, fill, fill, fill >>)
        IN  CpuOn(CPU_load_and_reset([ c EXCEPT !.memory = m ], CopyProgram, None))

NextCopy ==
    \/ Run
    \/ Step

SpecCopy == InitCopy /\ [][NextCopy]_vars

\* C26: when the run of the copy loop has returned, $0200-$0203 hold the bytes of
\* $8000-$8003 (A2 00 BD 00) and X = 4.
C26_CopyLoop ==
    cpu.at = "returned" =>
        /\ \A k \in 0 .. 3 :
               Memory_read(cpu.memory, 512 + k) = Memory_read(cpu.memory, 32768 + k)
        /\ << Memory_read(cpu.memory, 512), Memory_read(cpu.memory, 513),
              Memory_read(cpu.memory, 514), Memory_read(cpu.memory, 515) >>
               = << 162, 0, 189, 0 >>
        /\ cpu.registers.x = 4

---------------------------------------------------------------------------
(* JSR and RTS.  The caller sets S, writes a subroutine at T (RTS, or NOP, *)
(* NOP, RTS) and loads JSR T, BRK at $8000, then calls run.                *)

CallTargets == { 1536, 36864 }

Subroutines == { << 96 >>, << 234, 234, 96 >> }

InitCall ==
    \E sp \in 0 .. 255 : \E target \in CallTargets : \E sub \in Subroutines :
        LET c == CPU_poke(CPU_new, 0, 0, 0, 0, sp)
            m == Memory_load(c.memory, target, sub)
        IN  CpuOn(CPU_load([ c EXCEPT !.memory = m ],
                           << 32, target % 256, target \div 256, 0 >>, None))

NextCall ==
    \/ Run
    \/ Step

SpecCall == InitCall /\ [][NextCall]_vars

\* C27: JSR at J with S = s leaves the high byte of J + 2 at $0100+s, its low
\* byte at $0100+(s-1) and S = s - 2, and execution goes on at T; the RTS of the
\* subroutine resumes at J + 3 with S = s.
C27_CallReturn ==
    LET s == Unwrap(hist.start).registers.sp
        T == Memory_read_u16(cpu.memory, 32769)
    IN  /\ (Len(hist.fetches) = 1 /\ last.op = "JSR") =>
               /\ Memory_read(cpu.memory, 256 + s) = 32770 \div 256
               /\ Memory_read(cpu.memory, 256 + ((s + 255) % 256)) = 32770 % 256
               /\ cpu.registers.sp = (s + 254) % 256
        /\ Len(hist.fetches) >= 2 => hist.fetches[2] = T
        /\ last.op = "RTS" =>
               /\ cpu.registers.pc = 32771
               /\ cpu.registers.sp = s

---------------------------------------------------------------------------
(* The six stack instructions together: the programs of SpecStack and of   *)
(* SpecCall.                                                               *)

InitStackOps == InitStack \/ InitCall

NextStackOps ==
    \/ Run
    \/ Step

SpecStackOps == InitStackOps /\ [][NextStackOps]_vars

\* the stack address of the stack pointer sp
StackAddr(sp) == 256 + (sp % 256)

\* C28: PHA, PHP and JSR write within $0100-$01FF only, each byte at $0100+S
\* followed by a decrement of S; PLA, PLP and RTS increment S and then read at
\* $0100+S; for every S, the wrap-around at $00 and $FF included.
C28_StackPage ==
    LET before == Unwrap(hist.prev).registers
        now == cpu.registers
        written == cpu.memory.written
    IN  /\ last.op \in { "PHA", "PHP", "JSR" } =>
               \A i \in 1 .. Len(written) : written[i] \in 256 .. 511
        /\ last.op \in { "PHA", "PHP" } =>
               /\ written = << StackAddr(before.sp) >>
               /\ now.sp = (before.sp + 255) % 256
        /\ last.op = "JSR" =>
               /\ { written[i] : i \in 1 .. Len(written) }
                      = { StackAddr(before.sp), StackAddr(before.sp + 255) }
               /\ now.sp = (before.sp + 254) % 256
        /\ last.op = "PLA" =>
               /\ now.sp = (before.sp + 1) % 256
               /\ now.a = Memory_read(cpu.memory, StackAddr(now.sp))
               /\ written = << >>
        /\ last.op = "PLP" =>
               /\ now.sp = (before.sp + 1) % 256
               /\ now.status = Memory_read(cpu.memory, StackAddr(now.sp))
               /\ written = << >>
        /\ last.op = "RTS" =>
               /\ now.sp = (before.sp + 2) % 256
               /\ now.pc = ( Memory_read(cpu.memory, StackAddr(before.sp + 1))
                             + 256 * Memory_read(cpu.memory, StackAddr(before.sp + 2))
                             + 1 ) % 65536
               /\ written = << >>

---------------------------------------------------------------------------
(* BRK and RTI.  Either the caller sets S and P, writes the IRQ/BRK vector *)
(* and loads NOP, BRK; or it writes a status byte and a return address     *)
(* above S, as an interrupt entry leaves them, and loads RTI.              *)

BreakStacks == { 0, 1, 2, 128, 253, 255 }
BreakFlags == { 0, 195, 255 }
BreakVectors == { 1536, 36864 }
ReturnAddrs == { 1621, 32784 }

InitBreak ==
    \/ \E sp \in BreakStacks : \E status \in BreakFlags : \E vector \in BreakVectors :
           LET c == CPU_load(CPU_poke(CPU_new, 0, 0, 0, status, sp),
                             << 234, 0 >>, None)
           IN  CpuOn([ c EXCEPT !.memory = Memory_write_u16(c.memory, 65534, vector) ])
    \/ \E sp \in BreakStacks : \E status \in BreakFlags : \E ret \in ReturnAddrs :
           LET c == CPU_load(CPU_poke(CPU_new, 0, 0, 0, 0, sp), << 64 >>, None)
               m1 == Memory_write(c.memory, StackAddr(sp + 1), status)
               m2 == Memory_write(m1, StackAddr(sp + 2), ret % 256)
               m3 == Memory_write(m2, StackAddr(sp + 3), ret \div 256)
           IN  CpuOn([ c EXCEPT !.memory = m3 ])

NextBreak ==
    \/ Run
    \/ Step

SpecBreak == InitBreak /\ [][NextBreak]_vars

\* C29: BRK at address p with S = s leaves the high byte of p + 2 at $0100+s, its
\* low byte at $0100+(s-1) and P with B and U set at $0100+(s-2), S = s - 3, the
\* I flag set and PC = the word at $FFFE; RTI with S = s leaves P = the byte at
\* $0100+(s+1) (but for B and U), PC = the word at $0100+(s+2) and S = s + 3.
C29_BreakReturn ==
    LET before == Unwrap(hist.prev).registers
        now == cpu.registers
    IN  /\ last.op = "BRK" =>
               /\ Memory_read(cpu.memory, StackAddr(before.sp))
                      = (last.addr + 2) \div 256
               /\ Memory_read(cpu.memory, StackAddr(before.sp + 255))
                      = (last.addr + 2) % 256
               /\ Memory_read(cpu.memory, StackAddr(before.sp + 254))
                      = StatusFlags_insert(StatusFlags_insert(before.status,
                                                              BREAK_COMMAND), UNUSED)
               /\ now.sp = (before.sp + 253) % 256
               /\ StatusFlags_contains(now.status, INTERRUPT_DISABLE)
               /\ now.pc = Memory_read_u16(cpu.memory, 65534)
        /\ last.op = "RTI" =>
               /\ WithoutBU(now.status)
                      = WithoutBU(Memory_read(cpu.memory, StackAddr(before.sp + 1)))
               /\ now.pc = Memory_read(cpu.memory, StackAddr(before.sp + 2))
                           + 256 * Memory_read(cpu.memory, StackAddr(before.sp + 3))
               /\ now.sp = (before.sp + 3) % 256

---------------------------------------------------------------------------
(* RESET.  The caller has used the registers, loads NOP, BRK, may point    *)
(* the reset vector elsewhere, calls reset(clear_mem) and then run.        *)

ResetStacks == { 0, 1, 2, 3, 128, 253, 254, 255 }
ResetFlags == { 0, 4, 251, 255 }
ResetVectors == { 4660, 32768 }

InitCpuReset ==
    \E sp \in ResetStacks : \E status \in ResetFlags : \E vector \in ResetVectors :
        LET c == CPU_load(CPU_poke(CPU_new, 7, 8, 9, status, sp), << 234, 0 >>, None)
        IN  CpuOn([ c EXCEPT !.memory = Memory_write_u16(c.memory, 65532, vector) ])

NextCpuReset ==
    \/ \E clear_mem \in BOOLEAN : Reset(clear_mem)
    \/ Run
    \/ Step

SpecCpuReset == InitCpuReset /\ [][NextCpuReset]_vars

\* C30: reset pushes nothing and (unless asked to clear the memory) leaves every
\* byte of memory as it was, leaves S three below its previous value (mod 256),
\* sets the I flag, and sets PC to the little-endian word at $FFFC/$FFFD.
C30_Reset ==
    last.op = "reset" =>
        LET before == Unwrap(hist.prev)
        IN  /\ cpu.memory.written = << >>
            /\ last.value = 0 => Memory_same(cpu.memory, before.memory)
            /\ cpu.registers.sp = (before.registers.sp + 253) % 256
            /\ StatusFlags_contains(cpu.registers.status, INTERRUPT_DISABLE)
            /\ cpu.registers.pc = Memory_read(cpu.memory, 65532)
                                  + 256 * Memory_read(cpu.memory, 65533)

---------------------------------------------------------------------------
(* Unknown opcodes.  The caller sets the registers and loads INX, u, INX,  *)
(* BRK, where u is a byte that is no opcode, or NOP, or BRK.               *)

UnknownCodes == { b \in 0 .. 255 : find_by_code(b) = None }

UnknownA == { 0, 128 }
UnknownFlags == { 0, 255 }
UnknownStacks == { 0, 253 }

InitUnknown ==
    \E u \in UnknownCodes \cup { 0, 234 } : \E a \in UnknownA :
        \E status \in UnknownFlags : \E sp \in UnknownStacks :
            CpuOn(CPU_load(CPU_poke(CPU_new, a, 3, 5, status, sp),
                           << 232, u, 232, 0 >>, None))

NextUnknown ==
    \/ Run
    \/ Step

SpecUnknown == InitUnknown /\ [][NextUnknown]_vars

\* the number of fetches up to the first BRK or unknown byte of the program at
\* $8000, whose instructions are one byte long
RECURSIVE FetchesToStop(_, _)
FetchesToStop(memory, addr) ==
    IF Memory_read(memory, addr) = 0 \/ Memory_read(memory, addr) \in UnknownCodes
    THEN 1
    ELSE 1 + FetchesToStop(memory, addr + 1)

\* C31: the fetch of a byte that is no opcode makes run return with A, X, Y, S, P
\* and memory as they were before the fetch; run returns at the first BRK or
\* unknown byte it reaches, not before, and nothing is executed after it.
C31_UnknownOpcode ==
    /\ last.op = "unknown" =>
           LET before == Unwrap(hist.prev)
           IN  /\ cpu.at = "returned"
               /\ last.value \in UnknownCodes
               /\ cpu.registers.a = before.registers.a
               /\ cpu.registers.x = before.registers.x
               /\ cpu.registers.y = before.registers.y
               /\ cpu.registers.sp = before.registers.sp
               /\ cpu.registers.status = before.registers.status
               /\ Memory_same(cpu.memory, before.memory)
               /\ cpu.memory.written = << >>
    /\ cpu.at = "returned" =>
           /\ last.op \in { "BRK", "unknown" }
           /\ Len(hist.fetches) = FetchesToStop(cpu.memory, 32768)
    /\ (cpu.at = "run" /\ hist.fetches # << >>) =>
           /\ last.op \notin { "BRK", "unknown" }
           /\ Len(hist.fetches) < FetchesToStop(cpu.memory, 32768)

\* C31 witness: the fetch of $02 after INX has ended the run with X = 4 and
\* P = $7D as INX left it, the second INX not executed
C31_Witness ==
    /\ last.op = "unknown"
    /\ last.value = 2
    /\ cpu.at = "returned"
    /\ cpu.registers.x = 4
    /\ cpu.registers.status = 125
    /\ Len(hist.fetches) = 2

---------------------------------------------------------------------------
(* The opcode table.  Any byte may be looked up.                           *)

\* the 151 documented opcodes of the 6502
OfficialCodes ==
    { 0, 1, 5, 6, 8, 9, 10, 13, 14, 16, 17, 21, 22, 24, 25, 29, 30, 32, 33,
      36, 37, 38, 40, 41, 42, 44, 45, 46, 48, 49, 53, 54, 56, 57, 61, 62, 64,
      65, 69, 70, 72, 73, 74, 76, 77, 78, 80, 81, 85, 86, 88, 89, 93, 94, 96,
      97, 101, 102, 104, 105, 106, 108, 109, 110, 112, 113, 117, 118, 120,
      121, 125, 126, 129, 132, 133, 134, 136, 138, 140, 141, 142, 144, 145,
      148, 149, 150, 152, 153, 154, 157, 160, 161, 162, 164, 165, 166, 168,
      169, 170, 172, 173, 174, 176, 177, 180, 181, 182, 184, 185, 186, 188,
      189, 190, 192, 193, 196, 197, 198, 200, 201, 202, 204, 205, 206, 208,
      209, 213, 214, 216, 217, 221, 222, 224, 225, 228, 229, 230, 232, 233,
      234, 236, 237, 238, 240, 241, 245, 246, 248, 249, 253, 254 }

\* the length of an instruction of an addressing mode
ModeBytes(mode) ==
    CASE mode \in { "None", "Accumulator" } -> 1
      [] mode \in { "Immediate", "ZeroPage", "ZeroPageX", "ZeroPageY", "Relative",
                    "IndirectX", "IndirectY" } -> 2
      [] mode \in { "Absolute", "AbsoluteX", "AbsoluteY", "Indirect" } -> 3

\* a call of CPU_OPCODES.find_by_code(code)
Decode(code) ==
    CpuStep(cpu, Last_of("find_by_code", 0, code, find_by_code(code)), hist)

InitDecode == CpuOn(CPU_new)

NextDecode == \E code \in 0 .. 255 : Decode(code)

SpecDecode == InitDecode /\ [][NextDecode]_vars

\* C32: the table has 151 entries; find_by_code returns the one entry with the
\* code for each documented opcode and none for every other byte; the length of
\* every entry is that of its addressing mode.
C32_OpcodeTable ==
    /\ Len(CPU_OPCODES) = 151
    /\ Cardinality(OfficialCodes) = 151
    /\ last.op = "find_by_code" =>
           LET hits == { i \in 1 .. Len(CPU_OPCODES) : CPU_OPCODES[i].code = last.value }
           IN  IF last.value \in OfficialCodes
               THEN /\ Cardinality(hits) = 1
                    /\ \A i \in hits :
                           /\ last.ret = Some(CPU_OPCODES[i])
                           /\ CPU_OPCODES[i].bytes = ModeBytes(CPU_OPCODES[i].addressing_mode)
               ELSE /\ hits = {}
                    /\ last.ret = None

\* C32 witness: $98, the last entry of the table, decodes to TYA, and $FF to
\* nothing
C32_Witness ==
    /\ last.op = "find_by_code"
    /\ last.value = 152
    /\ IsSome(last.ret)
    /\ Unwrap(last.ret).mnemonic = "TYA"
    /\ Unwrap(last.ret).bytes = 1
    /\ find_by_code(255) = None

---------------------------------------------------------------------------
(* SpecSchedule: the order of the steps of one clock().  Shortly before    *)
(* the first step of the four-step sequence the program sets up the five   *)
(* channels in one go and enables them; the bus answers every DMC fetch    *)
(* before the next clock; the program may write $4017 once.  One sample is *)
(* queued per CPU cycle, so that every call hands the mixer's inputs to    *)
(* the queue; the host thread empties the queue before it holds more than  *)
(* MaxScheduleQueue samples.                                               *)

\* clocks per run, and the $4017 writes of a run
MaxScheduleCycles == 7480
MaxScheduleResets == 1
\* samples the host lets the queue hold
MaxScheduleQueue == 2
\* the cycles the set-up may start on, and those of the $4017 write
ScheduleFroms == { 7450, 7451, 7452 }
ScheduleResetCycles == { 7454, 7455 }
\* the set-up: the registers in the order they are written, each with the values
\* the program may write
ScheduleSetup ==
    << << 16384, { 191 } >>, << 16386, { 1, 8 } >>, << 16387, { 8 } >>,
       << 16388, { 191 } >>, << 16390, { 1 } >>, << 16391, { 8 } >>,
       << 16392, { 5 } >>, << 16394, { 2, 3 } >>, << 16395, { 8 } >>,
       << 16396, { 63 } >>, << 16398, { 0, 128 } >>, << 16399, { 8 } >>,
       << 16403, { 1 } >> >>
SetupLen == Len(ScheduleSetup)
\* the byte the bus answers a DMC fetch with
ScheduleDmcByte == 170

InitSchedule == New(CPU_FREQUENCY, << >>)

\* the set-up has not begun, or is complete
SetupIdle == hist.writes = 0 \/ hist.writes > SetupLen

SetupWrite ==
    /\ hist.writes < SetupLen
    /\ hist.writes = 0 => cpu_cycle \in ScheduleFroms
    /\ \E v \in ScheduleSetup[hist.writes + 1][2] :
          WriteRegister(ScheduleSetup[hist.writes + 1][1], v)

SetupEnable ==
    /\ hist.writes = SetupLen
    /\ WriteStatus(31)

\* the last clock returned a DMC fetch that the bus has not answered yet
FetchDue == last.op = "clock" /\ IsSome(last.ret)

\* host thread: takes the mutex, removes every queued sample, releases the mutex
HostDrain ==
    /\ audio_buffer # << >>
    /\ Install([ APU EXCEPT !.audio_buffer = << >> ])
    /\ last' = Last_of("host_drain", 0, 0, None)
    /\ UNCHANGED << hist, threads >>

NextSchedule ==
    \/ /\ SetupIdle
       /\ ~FetchDue
       /\ Len(audio_buffer) < MaxScheduleQueue
       /\ Clock(MaxScheduleCycles)
    \/ HostDrain
    \/ SetupWrite
    \/ SetupEnable
    \/ /\ FetchDue
       /\ ProvideDmcSample(ScheduleDmcByte)
    \/ \E v \in { 0, 128 } :
          /\ hist.writes > SetupLen
          /\ ~FetchDue
          /\ cpu_cycle \in ScheduleResetCycles
          /\ hist.writes17 < MaxScheduleResets
          /\ WriteFrameCounter(v)

SpecSchedule == InitSchedule /\ [][NextSchedule]_vars

\* the fields of the APU struct
ApuFields(a) ==
    << a.square1, a.square2, a.triangle, a.noise, a.dmc, a.frame_counter,
       a.frame_irq, a.sample_timer, a.audio_buffer, a.cpu_cycle,
       a.pending_frame_reset >>

\* the APU after the step, from the primed variables
ApuFields_next ==
    << square1', square2', triangle', noise', dmc', frame_counter',
       frame_irq', sample_timer', audio_buffer', cpu_cycle',
       pending_frame_reset' >>

\* one clock() as the claim states it, step by step
ScheduledClock(a) ==
    LET even == a.cpu_cycle % 2 = 0
        \* 1. a pending frame reset is serviced
        s1 == APU_tick_frame_reset(a).apu
        \* 2. the DMC ticks
        s2 == [ s1 EXCEPT !.dmc = Dmc_clock(s1.dmc).dmc ]
        \* 3. the channel timers tick: pulse 1, pulse 2 and noise on even cycles
        \*    only, the triangle on every cycle
        s3 == [ s2 EXCEPT
                  !.square1 = IF even THEN Square_clock_timer(s2.square1)
                              ELSE s2.square1,
                  !.square2 = IF even THEN Square_clock_timer(s2.square2)
                              ELSE s2.square2,
                  !.noise = IF even THEN Noise_clock_timer(s2.noise) ELSE s2.noise,
                  !.triangle = Triangle_clock_timer(s2.triangle) ]
        \* 4. the frame sequencer ticks; quarter, half and IRQ are dispatched
        t == FrameCounter_tick(s3.frame_counter)
        s4a == [ s3 EXCEPT !.frame_counter = t.fc ]
        s4b == IF t.events.quarter THEN APU_clock_quarter_frame(s4a) ELSE s4a
        s4c == IF t.events.half THEN APU_clock_half_frame(s4b) ELSE s4b
        s4 == IF t.events.irq THEN APU_set_frame_irq(s4c) ELSE s4c
        \* 5. a sample is emitted when one is due
        s5 == APU_emit(s4)
    IN  [ s5 EXCEPT !.cpu_cycle = a.cpu_cycle + 1 ]

\* C33: every clock() call performs, in this order, the service of a pending frame
\* reset, the DMC tick, the channel timer ticks, the frame sequencer tick with the
\* dispatch of its quarter, half and IRQ events, and the sample emission; the
\* timers of pulse 1, pulse 2 and noise tick only on even CPU cycles (every second
\* call), the triangle timer and the DMC on every call.
C33_Schedule ==
    [][ last'.op = "clock" =>
          /\ ApuFields_next = ApuFields(ScheduledClock(APU))
          /\ cpu_cycle % 2 = 1 /\ last'.issued = NoneIssued =>
                /\ square1' = square1
                /\ square2' = square2
                /\ noise' = noise
          /\ cpu_cycle' % 2 = 1 - (cpu_cycle % 2)
          /\ triangle'.timer_value # triangle.timer_value
          /\ dmc'.timer_value # dmc.timer_value ]_vars

\* C33 witness: on an odd cycle the triangle timer ran out in the very call whose
\* frame sequencer tick issued the quarter-frame clock that loaded the linear
\* counter: the sequence position stayed where it was (the timer ticked first) and
\* the sample queued by the call carries the triangle's output with the new linear
\* counter (the emission came last); the pulse timers stood still
C33_Witness ==
    /\ last.op = "clock"
    /\ last.events.quarter
    /\ cpu_cycle % 2 = 0
    /\ triangle.timer_value = triangle.timer_period + 1
    /\ triangle.linear_counter = 5
    /\ triangle.sequence_idx = 0
    /\ square1.timer_value > 0
    /\ Len(audio_buffer) > 0
    /\ audio_buffer[Len(audio_buffer)].t = TRIANGLE_TABLE[1]
    /\ TRIANGLE_TABLE[1] > 0

---------------------------------------------------------------------------
(* PulseChannel (apu/pulse.rs): a pulse channel with its envelope, sweep   *)
(* and length counter in one struct.                                       *)

PULSE_DUTY_TABLE ==
    << << 0, 1, 0, 0, 0, 0, 0, 0 >>,
       << 0, 1, 1, 0, 0, 0, 0, 0 >>,
       << 0, 1, 1, 1, 1, 0, 0, 0 >>,
       << 1, 0, 0, 1, 1, 1, 1, 1 >> >>

\* u16::saturating_add, u16::saturating_sub, u8::saturating_add
SatAdd16(x, y) == IF x + y > 65535 THEN 65535 ELSE x + y
SatSub16(x, y) == IF x < y THEN 0 ELSE x - y
SatAdd8(x, y) == IF x + y > 255 THEN 255 ELSE x + y

PulseChannel_new(negate_correction) ==
    [ enabled |-> FALSE, duty |-> 0, duty_position |-> 0, timer_period |-> 0,
      timer_value |-> 0, length_counter |-> 0, length_halt |-> FALSE,
      constant_volume |-> FALSE, envelope_period |-> 0, envelope_divider |-> 0,
      envelope_decay_level |-> 0, envelope_start |-> FALSE,
      sweep_enabled |-> FALSE, sweep_period |-> 1, sweep_counter |-> 0,
      sweep_shift |-> 0, sweep_negate |-> FALSE, sweep_reload |-> FALSE,
      negate_correction |-> negate_correction ]

Pulse_set_enabled(p, enabled) ==
    [ p EXCEPT !.enabled = enabled,
               !.length_counter = IF enabled THEN p.length_counter ELSE 0 ]

Pulse_reload_timer(p) == [ p EXCEPT !.timer_value = SatAdd16(p.timer_period, 1) ]

Pulse_envelope_reload_value(p) == SatAdd8(p.envelope_period, 1)

Pulse_write_register(p, register, value) ==
    CASE register = 0 ->
           [ p EXCEPT !.duty = Shr(value, 6) % 4,
                      !.length_halt = (Bit(value, 5) = 1),
                      !.constant_volume = (Bit(value, 4) = 1),
                      !.envelope_period = value % 16,
                      !.envelope_start = TRUE ]
      [] register = 1 ->
           [ p EXCEPT !.sweep_enabled = (Bit(value, 7) = 1),
                      !.sweep_period = (Shr(value, 4) % 8) + 1,
                      !.sweep_negate = (Bit(value, 3) = 1),
                      !.sweep_shift = value % 8,
                      !.sweep_reload = TRUE ]
      [] register = 2 ->
           [ p EXCEPT !.timer_period = (p.timer_period \div 256) * 256 + value ]
      [] register = 3 ->
           LET p1 == [ p EXCEPT !.timer_period =
                                    (p.timer_period % 256) + (value % 8) * 256 ]
           IN  [ Pulse_reload_timer(p1) EXCEPT
                   !.length_counter = LENGTH_TABLE[Shr(value, 3) + 1],
                   !.envelope_start = TRUE,
                   !.duty_position = 0 ]
      [] OTHER -> p

Pulse_clock_timer(p) ==
    IF p.timer_period < 8 \/ p.timer_period > 2047
    THEN p
    ELSE IF p.timer_value <= 1
    THEN [ Pulse_reload_timer(p) EXCEPT !.duty_position = (p.duty_position + 1) % 8 ]
    ELSE [ p EXCEPT !.timer_value = p.timer_value - 1 ]

Pulse_clock_quarter_frame(p) ==
    IF p.envelope_start
    THEN [ p EXCEPT !.envelope_start = FALSE,
                    !.envelope_decay_level = 15,
                    !.envelope_divider = Pulse_envelope_reload_value(p) ]
    ELSE IF p.envelope_divider = 0
    THEN [ p EXCEPT !.envelope_divider = Pulse_envelope_reload_value(p),
                    !.envelope_decay_level =
                        IF p.envelope_decay_level = 0
                        THEN (IF p.length_halt THEN 15 ELSE 0)
                        ELSE p.envelope_decay_level - 1 ]
    ELSE [ p EXCEPT !.envelope_divider = SatSub16(p.envelope_divider, 1) ]

Pulse_sweep_target_period(p) ==
    LET change == Shr(p.timer_period, p.sweep_shift)
    IN  IF p.sweep_negate
        THEN SatSub16(p.timer_period, change + p.negate_correction)
        ELSE SatAdd16(p.timer_period, change)

Pulse_sweep_mute(p) ==
    IF p.timer_period < 8 \/ p.timer_period > 2047
    THEN TRUE
    ELSE IF p.sweep_enabled /\ p.sweep_shift > 0
    THEN IF /\ p.sweep_negate
            /\ Shr(p.timer_period, p.sweep_shift) + p.negate_correction > p.timer_period
         THEN TRUE
         ELSE Pulse_sweep_target_period(p) > 2047
    ELSE FALSE

Pulse_clock_half_frame(p) ==
    LET p1 == IF p.length_counter > 0 /\ ~p.length_halt
              THEN [ p EXCEPT !.length_counter = p.length_counter - 1 ]
              ELSE p
        zero == p1.sweep_counter = 0
        p2 == IF /\ zero
                 /\ p1.sweep_enabled
                 /\ p1.sweep_shift > 0
                 /\ ~Pulse_sweep_mute(p1)
                 /\ Pulse_sweep_target_period(p1) <= 2047
              THEN [ p1 EXCEPT !.timer_period = Pulse_sweep_target_period(p1) ]
              ELSE p1
        reload_divider == zero \/ p2.sweep_reload
        p3 == [ p2 EXCEPT !.sweep_reload = FALSE ]
    IN  IF reload_divider
        THEN [ p3 EXCEPT !.sweep_counter = p3.sweep_period ]
        ELSE IF p3.sweep_counter > 0
        THEN [ p3 EXCEPT !.sweep_counter = p3.sweep_counter - 1 ]
        ELSE p3

\* output() as the integer the f32 is converted from
Pulse_output(p) ==
    IF ~p.enabled \/ p.length_counter = 0 \/ Pulse_sweep_mute(p)
    THEN 0
    ELSE IF PULSE_DUTY_TABLE[p.duty + 1][p.duty_position + 1] = 0
    THEN 0
    ELSE IF p.constant_volume THEN p.envelope_period
    ELSE p.envelope_decay_level

Pulse_is_active(p) == p.length_counter > 0

---------------------------------------------------------------------------
(* Actions: the methods of a PulseChannel.  The APU is left alone.         *)

\* the APU at power-on beside a PulseChannel::new(negate_correction)
PulseOn(negate_correction) ==
    /\ ApuStart(ClockSampleRate, << >>)
    /\ mapper = None
    /\ cpu = None
    /\ pulse = Some(PulseChannel_new(negate_correction))

\* a step of the channel: its state and the call observed
PulseStep(p, l) ==
    /\ pulse # None
    /\ pulse' = Some(p)
    /\ last' = l
    /\ UNCHANGED << apu_vars, threads, mapper, cpu, hist >>

PulseWriteRegister(register, value) ==
    /\ pulse # None
    /\ PulseStep(Pulse_write_register(Unwrap(pulse), register, value),
                 Last_of("pulse_write_register", register, value, None))

PulseSetEnabled(enabled) ==
    /\ pulse # None
    /\ PulseStep(Pulse_set_enabled(Unwrap(pulse), enabled),
                 Last_of("pulse_set_enabled", 0, IF enabled THEN 1 ELSE 0, None))

PulseClockTimer ==
    /\ pulse # None
    /\ PulseStep(Pulse_clock_timer(Unwrap(pulse)),
                 Last_of("pulse_clock_timer", 0, 0, None))

PulseClockQuarterFrame ==
    /\ pulse # None
    /\ PulseStep(Pulse_clock_quarter_frame(Unwrap(pulse)),
                 Last_of("pulse_clock_quarter_frame", 0, 0, None))

PulseClockHalfFrame ==
    /\ pulse # None
    /\ PulseStep(Pulse_clock_half_frame(Unwrap(pulse)),
                 Last_of("pulse_clock_half_frame", 0, 0, None))

---------------------------------------------------------------------------
(* SpecEnvelope: the envelope units.  Either the APU runs: the program     *)
(* enables pulse 1 and sets its period, writes its control register,       *)
(* restarts the envelope with a write to $4003, and provokes quarter-frame *)
(* clocks by writing $80 to $4017 each time the previous reset has been    *)
(* carried out.  Or a PulseChannel is driven through its methods.          *)

\* the $4017 writes of a run
MaxEnvelopeResets == 40
\* control bytes (duty 3): decay, looping decay, constant volume 15, constant
\* volume 5 with the loop flag
EnvelopeControls == { 192, 224, 223, 245 }
\* the low byte of the timer period
EnvelopePeriod == 16
\* the numbers of $4017 writes after which the program may write the registers
EnvelopeWriteAt == { 0, 5, 38 }
\* the byte written to the length register
EnvelopeLength == 8

InitEnvelope ==
    \/ New(ClockSampleRate, << >>)
    \/ \E nc \in { 0, 1 } : PulseOn(nc)

\* the $4017 write before has been carried out
ResetDone == pending_frame_reset = None

NextEnvelope ==
    \/ /\ pulse = None
       /\ ~ResetDone
       /\ Clock(MaxFrameCycles)
    \/ /\ pulse = None
       /\ ResetDone
       /\ hist.writes >= 2
       /\ hist.writes17 < MaxEnvelopeResets
       /\ WriteFrameCounter(128)
    \/ /\ pulse = None
       /\ hist.writes = 0
       /\ WriteStatus(1)
    \/ /\ pulse = None
       /\ hist.writes = 1
       /\ WriteRegister(16386, EnvelopePeriod)
    \/ \E v \in EnvelopeControls :
          /\ pulse = None
          /\ ResetDone
          /\ hist.writes >= 2
          /\ hist.writes17 \in EnvelopeWriteAt
          /\ last.op # "write_register"
          /\ WriteRegister(16384, v)
    \/ /\ pulse = None
       /\ ResetDone
       /\ hist.writes >= 2
       /\ hist.writes17 \in EnvelopeWriteAt
       /\ last.op # "write_register" \/ last.addr # 16387
       /\ WriteRegister(16387, EnvelopeLength)
    \/ \E v \in EnvelopeControls : PulseWriteRegister(0, v)
    \/ PulseWriteRegister(2, EnvelopePeriod)
    \/ PulseWriteRegister(3, EnvelopeLength)
    \/ PulseSetEnabled(TRUE)
    \/ PulseClockQuarterFrame

SpecEnvelope == InitEnvelope /\ [][NextEnvelope]_vars

\* the envelope unit of a SquareChannel and that of a PulseChannel
EnvelopeOfSquare(c) ==
    [ start |-> c.envelope.start_flag, divider |-> c.envelope.divider,
      decay |-> c.envelope.decay_level, volume |-> c.envelope.volume,
      loop |-> c.envelope.loop_flag, fixed |-> c.envelope.constant_volume ]

EnvelopeOfPulse(p) ==
    [ start |-> p.envelope_start, divider |-> p.envelope_divider,
      decay |-> p.envelope_decay_level, volume |-> p.envelope_period,
      loop |-> p.length_halt, fixed |-> p.constant_volume ]

\* one quarter-frame clock of an envelope unit, as the claim states it
EnvelopeRule(e) ==
    IF e.start
    THEN [ e EXCEPT !.start = FALSE, !.decay = 15, !.divider = e.volume + 1 ]
    ELSE IF e.divider = 0
    THEN [ e EXCEPT !.divider = e.volume + 1,
                    !.decay = IF e.decay > 0 THEN e.decay - 1
                              ELSE IF e.loop THEN 15
                              ELSE 0 ]
    ELSE [ e EXCEPT !.divider = e.divider - 1 ]

EnvelopeRuleOutput(e) == IF e.fixed THEN e.volume ELSE e.decay

\* C34: on every quarter-frame clock an envelope unit with the start flag set
\* clears it, sets decay_level to 15 and the divider to volume+1; otherwise with the
\* divider at 0 the divider becomes volume+1 and decay_level is decremented when
\* > 0, set to 15 when it is 0 and the loop flag is set, left at 0 otherwise;
\* otherwise the divider is decremented.  The output is volume when
\* constant_volume is set, else decay_level; decay_level and the output stay
\* within 0..15.  SquareChannel's Envelope and PulseChannel both follow the rule.
C34_Envelope ==
    [][ /\ last'.op = "clock" =>
              EnvelopeOfSquare(square1') =
                  (IF last'.issued.quarter = 1
                   THEN EnvelopeRule(EnvelopeOfSquare(square1))
                   ELSE EnvelopeOfSquare(square1))
        /\ last'.op = "clock" => last'.issued.quarter \in { 0, 1 }
        /\ Envelope_output(square1'.envelope) =
               EnvelopeRuleOutput(EnvelopeOfSquare(square1'))
        /\ square1'.envelope.decay_level \in 0 .. 15
        /\ Envelope_output(square1'.envelope) \in 0 .. 15
        /\ Square_output(square1') \in { 0, Envelope_output(square1'.envelope) }
        /\ pulse' # None =>
              LET p == Unwrap(pulse)
                  q == Unwrap(pulse')
                  sounding == /\ q.enabled
                              /\ q.length_counter > 0
                              /\ ~Pulse_sweep_mute(q)
                              /\ PULSE_DUTY_TABLE[q.duty + 1][q.duty_position + 1] = 1
              IN  /\ last'.op = "pulse_clock_quarter_frame" =>
                        /\ EnvelopeOfPulse(q) = EnvelopeRule(EnvelopeOfPulse(p))
                        /\ [ q EXCEPT !.envelope_start = FALSE,
                                      !.envelope_divider = 0,
                                      !.envelope_decay_level = 0 ]
                           = [ p EXCEPT !.envelope_start = FALSE,
                                        !.envelope_divider = 0,
                                        !.envelope_decay_level = 0 ]
                  /\ q.envelope_decay_level \in 0 .. 15
                  /\ Pulse_output(q) \in 0 .. 15
                  /\ Pulse_output(q) =
                         (IF sounding THEN EnvelopeRuleOutput(EnvelopeOfPulse(q))
                          ELSE 0) ]_vars

\* C34 witness (SquareChannel): a looping envelope with volume 0, started before
\* the first quarter-frame clock, has decayed to 0 in 31 clocks, and the 33rd has
\* set it to 15 again: pulse 1 puts out 15
C34_Witness ==
    /\ last.op = "clock"
    /\ last.issued.quarter = 1
    /\ hist.writes17 = 33
    /\ square1.envelope.loop_flag
    /\ ~square1.envelope.constant_volume
    /\ square1.envelope.volume = 0
    /\ square1.envelope.decay_level = 15
    /\ square1.envelope.divider = 1
    /\ Square_output(square1) = 15

\* the same for a PulseChannel: the decay level is 15 again after a quarter-frame
\* clock that found the start flag clear and the divider at 0
C34_WitnessPulse ==
    /\ pulse # None
    /\ last.op = "pulse_clock_quarter_frame"
    /\ Unwrap(pulse).length_halt
    /\ Unwrap(pulse).envelope_decay_level = 15
    /\ Unwrap(pulse).envelope_divider = Unwrap(pulse).envelope_period + 1
    /\ Unwrap(pulse).envelope_period = 0
    /\ ~Unwrap(pulse).constant_volume
    /\ Pulse_output(Unwrap(pulse)) = 15

---------------------------------------------------------------------------
(* SpecSweep: the sweep units.  Either the APU runs: the program enables   *)
(* both pulse channels, writes their periods and sweep registers, and      *)
(* provokes half-frame clocks by writing $80 to $4017 each time the        *)
(* previous reset has been carried out.  Or a PulseChannel (pulse 1:       *)
(* negate_correction 1, pulse 2: 0) is driven through its methods: its     *)
(* period is written once, the sweep register any number of times, each    *)
(* time after a half-frame clock.                                          *)

\* the $4017 writes of a run
MaxSweepResets == 16
\* the low and high period bytes (the high byte carries length index 3), and the
\* sweep bytes: enabled with divider period 1, up or down, shift 1 or 2; disabled
SweepLows == { 8, 200 }
SweepHighs == { 24, 31 }
SweepBytes == { 129, 130, 137, 138, 9 }
\* the set-up of the APU: the registers in the order they are written
SweepSetup ==
    << << 16386, SweepLows >>, << 16390, SweepLows >>,
       << 16387, SweepHighs >>, << 16391, SweepHighs >>,
       << 16385, SweepBytes >>, << 16389, SweepBytes >> >>
SweepSetupLen == Len(SweepSetup)

InitSweep ==
    \/ New(ClockSampleRate, << >>)
    \/ \E nc \in { 0, 1 } : PulseOn(nc)

NextSweep ==
    \/ /\ pulse = None
       /\ ~ResetDone
       /\ Clock(MaxFrameCycles)
    \/ /\ pulse = None
       /\ hist.writes = 0
       /\ WriteStatus(3)
    \/ \E v \in 0 .. 255 :
          /\ pulse = None
          /\ hist.writes \in 1 .. SweepSetupLen
          /\ v \in SweepSetup[hist.writes][2]
          /\ WriteRegister(SweepSetup[hist.writes][1], v)
    \/ /\ pulse = None
       /\ ResetDone
       /\ hist.writes > SweepSetupLen
       /\ hist.writes17 < MaxSweepResets
       /\ WriteFrameCounter(128)
    \/ \E v \in SweepLows :
          /\ pulse # None
          /\ Unwrap(pulse).timer_period = 0
          /\ PulseWriteRegister(2, v)
    \/ \E v \in SweepHighs :
          /\ pulse # None
          /\ Unwrap(pulse).timer_period # 0
          /\ Unwrap(pulse).timer_value = 0
          /\ PulseWriteRegister(3, v)
    \/ \E v \in SweepBytes :
          /\ pulse # None
          /\ Unwrap(pulse).timer_value # 0
          /\ ~Unwrap(pulse).sweep_reload
          /\ PulseWriteRegister(1, v)
    \/ /\ pulse # None
       /\ Unwrap(pulse).timer_value # 0
       /\ PulseClockHalfFrame

SpecSweep == InitSweep /\ [][NextSweep]_vars

\* the sweep unit of a SquareChannel and that of a PulseChannel: the divider is at
\* 0, the unit is enabled with a shift, the channel is not muted; the period; the
\* channel is muted; the channel is pulse 1
SweepOfSquare(c) ==
    [ ready |-> c.sweep.divider = 0 /\ c.sweep.enabled /\ c.sweep.shift > 0
                /\ ~SweepUnit_is_muted(c.sweep, c.timer_period),
      period |-> c.timer_period, shift |-> c.sweep.shift, negate |-> c.sweep.negate,
      muted |-> SweepUnit_is_muted(c.sweep, c.timer_period),
      pulse1 |-> c.sweep.ones_complement ]

SweepOfPulse(p) ==
    [ ready |-> p.sweep_counter = 0 /\ p.sweep_enabled /\ p.sweep_shift > 0
                /\ ~Pulse_sweep_mute(p),
      period |-> p.timer_period, shift |-> p.sweep_shift, negate |-> p.sweep_negate,
      muted |-> Pulse_sweep_mute(p),
      pulse1 |-> p.negate_correction = 1 ]

\* the target period as the claim states it, on the integers
SweepRuleTarget(u) ==
    IF u.negate
    THEN u.period - Shr(u.period, u.shift) - (IF u.pulse1 THEN 1 ELSE 0)
    ELSE u.period + Shr(u.period, u.shift)

\* one half-frame clock took the sweep unit from u to v as the claim states it
SweepRule(u, v) ==
    IF u.ready
    THEN /\ u.period >= 8 => SweepRuleTarget(u) >= 0
         /\ IF SweepRuleTarget(u) <= 2047 /\ u.period >= 8
            THEN v.period = SweepRuleTarget(u)
            ELSE v.period = u.period /\ v.muted
    ELSE v.period = u.period

\* C35: on a half-frame clock with the sweep divider at 0, sweep enabled, shift > 0
\* and the channel not muted, the timer period becomes period + (period >> shift),
\* or when negating period - (period >> shift) - 1 for pulse 1 and
\* period - (period >> shift) for pulse 2, provided the target is <= $7FF and the
\* period is >= 8; otherwise the period is unchanged and the channel is muted.
\* The subtraction never goes below zero for periods >= 8, and the timer period
\* is <= $7FF in every reachable state.
C35_Sweep ==
    [][ /\ last'.op = "clock" /\ last'.issued.half = 1 =>
              /\ SweepRule(SweepOfSquare(square1), SweepOfSquare(square1'))
              /\ SweepRule(SweepOfSquare(square2), SweepOfSquare(square2'))
        /\ last'.op = "clock" /\ last'.issued.half = 0 =>
              /\ square1'.timer_period = square1.timer_period
              /\ square2'.timer_period = square2.timer_period
        /\ last'.op = "clock" => last'.issued.half \in { 0, 1 }
        /\ square1'.timer_period \in 0 .. 2047
        /\ square2'.timer_period \in 0 .. 2047
        /\ pulse' # None =>
              /\ last'.op = "pulse_clock_half_frame" =>
                    SweepRule(SweepOfPulse(Unwrap(pulse)), SweepOfPulse(Unwrap(pulse')))
              /\ Unwrap(pulse').timer_period \in 0 .. 2047 ]_vars

\* C35 witness: pulse 1 has swept down from 200 by one half (99 = 200 - 100 - 1)
\* while pulse 2, set up alike, is at 100
C35_Witness ==
    /\ last.op = "clock"
    /\ last.issued.half = 1
    /\ square1.sweep.negate /\ square1.sweep.shift = 1
    /\ square2.sweep.negate /\ square2.sweep.shift = 1
    /\ square1.timer_period = 99
    /\ square2.timer_period = 100

\* the same for a PulseChannel constructed as pulse 1
C35_WitnessPulse ==
    /\ pulse # None
    /\ last.op = "pulse_clock_half_frame"
    /\ Unwrap(pulse).negate_correction = 1
    /\ Unwrap(pulse).sweep_negate
    /\ Unwrap(pulse).sweep_shift = 1
    /\ Unwrap(pulse).timer_period = 99

\* a sweep upwards has stopped at the target above $7FF: the channel is muted
C35_WitnessMuted ==
    /\ last.op = "clock"
    /\ last.issued.half = 1
    /\ square1.sweep.muted
    /\ square1.timer_period = 1518

---------------------------------------------------------------------------
(* The frame condition of the MMC3 IRQ-disable write, under SpecMmc3Irq.   *)

\* C36: a write to an even address in $E000-$FFFF changes only the IRQ-enabled and
\* the IRQ-pending flag: the IRQ counter, the latch and the reload request keep
\* their values, so that the next scanline clock leaves the counter as it would
\* have left it without the write.
C36_IrqDisableFrame ==
    [][ (last'.op = "write_prg" /\ last'.addr >= 57344 /\ last'.addr % 2 = 0) =>
            /\ mapper'.irq_counter = mapper.irq_counter
            /\ mapper'.irq_latch = mapper.irq_latch
            /\ mapper'.irq_reload = mapper.irq_reload
            /\ mapper' = [ mapper EXCEPT !.irq_enabled = mapper'.irq_enabled,
                                         !.irq_pending = mapper'.irq_pending ]
            /\ Mmc3_clock_irq_counter(mapper').irq_counter =
                   Mmc3_clock_irq_counter(mapper).irq_counter ]_vars

\* the case of C36: the write found the counter different from the latch
C36_Case ==
    /\ last.op = "write_prg"
    /\ last.addr = 57344
    /\ mapper.irq_latch = 2
    /\ mapper.irq_counter = 2
    /\ ~mapper.irq_enabled
    /\ hist.off_clocks = 0

---------------------------------------------------------------------------
(* PRG reads of UxROM, under SpecUxrom.                                    *)

\* C37: on a cartridge with n >= 1 16 KiB PRG banks, after any sequence of
\* write_prg calls, UxROM's read_prg(a) for a in $8000-$FFFF indexes inside the
\* PRG ROM: the call returns a byte of the ROM and does not panic.
C37_PrgReadsTotal ==
    (/\ last.op = "read_prg"
     /\ last.addr \in 32768 .. 65535
     /\ mapper.prg_rom.len >= 16384)
        => /\ IsSome(last.ret)
           /\ \E i \in 0 .. mapper.prg_rom.len - 1 : last.ret = Some(RomByte(i))

\* the case of C37: a read of the switchable window after a write of a bank
\* number beyond the ROM
C37_Case ==
    /\ last.op = "read_prg"
    /\ last.addr \in 32768 .. 49151
    /\ mapper.prg_bank >= mapper.prg_rom.len \div 16384
    /\ mapper.prg_rom.len >= 16384

---------------------------------------------------------------------------
(* SpecHandshake: the DMC fetch handshake on a bus that answers when it    *)
(* likes.  After the playback routine the APU is clocked; the bus calls    *)
(* provide_dmc_sample at any time, with or without a request to answer;    *)
(* the program disables and enables the channel through $4015.             *)

\* clocks per run, $4015 writes after the playback routine
MaxHandshakeCycles == 500
MaxHandshakeWrites == 2
\* the cycles of those writes
HandshakeWriteCycles == { 2, 3, 436, 437 }
HandshakeLengths == { 0, 1 }

InitHandshake == New(DmcSampleRate, << >>)

NextHandshake ==
    \/ PlaySample({ 15, 79 }, { 0 }, { 0 }, HandshakeLengths)
    \/ /\ hist.writes >= PlayWrites
       /\ Clock(MaxHandshakeCycles)
    \/ /\ hist.writes >= PlayWrites
       /\ last.op # "provide_dmc_sample"
       /\ \E v \in DmcBytes : ProvideDmcSample(v)
    \/ \E v \in { 0, 16 } :
          /\ hist.writes >= PlayWrites
          /\ hist.writes < PlayWrites + MaxHandshakeWrites
          /\ cpu_cycle \in HandshakeWriteCycles
          /\ WriteStatus(v)

SpecHandshake == InitHandshake /\ [][NextHandshake]_vars

C38_WitnessAccepted ==
    /\ last.op = "provide_dmc_sample"
    /\ dmc.sample_length = 17
    /\ dmc.bytes_remaining = 15
    /\ IsSome(dmc.sample_buffer)

---------------------------------------------------------------------------
(* Disabled channels, under SpecStatus.                                    *)

\* the enable bit of channel ch (the last value written to $4015) and the
\* channel's output
EnabledOf(a, ch) ==
    IF ch = 0 THEN a.square1.enabled
    ELSE IF ch = 1 THEN a.square2.enabled
    ELSE IF ch = 2 THEN a.triangle.enabled
    ELSE a.noise.enabled

OutputOf(a, ch) ==
    IF ch = 0 THEN Square_output(a.square1)
    ELSE IF ch = 1 THEN Square_output(a.square2)
    ELSE IF ch = 2 THEN Triangle_output(a.triangle)
    ELSE Noise_output(a.noise)

\* C39: while a channel's enable bit is clear its length counter is 0, a read of
\* $4015 shows its status bit as 0 and the channel puts out 0, in every reachable
\* state, also after a write to its length register while it is disabled.
C39_DisabledSilent ==
    \A ch \in LengthChannels :
        ~EnabledOf(APU, ch) =>
            /\ LengthOf(APU, ch) = 0
            /\ Bit(APU_status_byte(APU), ch) = 0
            /\ OutputOf(APU, ch) = 0
            /\ (last.op = "read_status" /\ IsSome(last.ret)) =>
                   Bit(Unwrap(last.ret), ch) = 0

\* the case of C39: the length register of the disabled pulse 1 has been written
C39_Case ==
    /\ last.op = "write_register"
    /\ last.addr = 16387
    /\ ~square1.enabled
    /\ hist.writes = 1

---------------------------------------------------------------------------
(* SpecNoise: the noise shift register.  The APU is clocked from power-on, *)
(* when the noise timer period is 0 and the register steps on every even   *)
(* cycle, for two full periods of the register; the program writes $400E   *)
(* (mode bit set or clear, period index 0) early or late in the run.       *)

\* clocks per run, $400E writes per run
MaxNoiseCycles == 65540
MaxNoiseWrites == 2
\* the cycles of the writes, and the bytes written
NoiseWriteCycles == { 11, 12, 65000, 65001 }
NoiseModes == { 0, 128 }

InitNoise == New(ClockSampleRate, << >>)

NextNoise ==
    \/ Clock(MaxNoiseCycles)
    \/ \E v \in NoiseModes :
          /\ cpu_cycle \in NoiseWriteCycles
          /\ hist.writes < MaxNoiseWrites
          /\ last.op = "clock"
          /\ WriteRegister(16398, v)

SpecNoise == InitNoise /\ [][NextNoise]_vars

\* one step of the register as the claim states it
LfsrRule(r, mode) ==
    LET tap == IF mode THEN (r \div 64) % 2 ELSE (r \div 2) % 2
        feedback == ((r % 2) + tap) % 2
    IN  (r \div 2) + 16384 * feedback

\* C40: on each noise timer underflow the shift register becomes its value shifted
\* right by one with feedback = bit 0 XOR (bit 6 if the mode bit is set, else bit 1)
\* in bit 14, and no other step changes it; from 1, under any interleaving of
\* $400E writes and timer ticks, it stays within 1..$7FFF: from every value
\* reached a step in either mode leads to a value within 1..$7FFF again.
C40_NoiseLfsr ==
    [][ /\ noise'.shift_register =
               (IF last'.op = "clock" /\ cpu_cycle % 2 = 0 /\ noise.timer_value = 0
                THEN LfsrRule(noise.shift_register, noise.mode)
                ELSE noise.shift_register)
        /\ noise'.shift_register \in 1 .. 32767
        /\ \A m \in BOOLEAN :
               /\ LfsrRule(noise'.shift_register, m) \in 1 .. 32767
               /\ Noise_clock_timer([ noise' EXCEPT !.mode = m, !.timer_value = 0 ])
                      .shift_register = LfsrRule(noise'.shift_register, m) ]_vars

\* C40 witness: after 32767 steps in mode 0 the register is back at 1
C40_Witness ==
    /\ last.op = "clock"
    /\ hist.writes = 0
    /\ cpu_cycle = 65535
    /\ ~noise.mode
    /\ noise.shift_register = 1

\* the register has stepped in mode 1 after a $400E write
C40_WitnessMode ==
    /\ last.op = "clock"
    /\ noise.mode
    /\ noise.timer_value = noise.timer_period
    /\ noise.shift_register >= 16384
    /\ hist.writes = 1

=============================================================================
